---- MODULE Spec2Model ----
(***************************************************************************)
(* bevy_trickfilm: the playback cursor (PlayingAnimation2D inside          *)
(* AnimationPlayer2D), the frame resolver of the animation system and the  *)
(* per-tick system that drives them.                                       *)
(*                                                                         *)
(* Times are f32 seconds in the source.  The model counts time in a fixed  *)
(* unit that is a negative power of two of a second, so that every value   *)
(* below (timestamps, durations, deltas, products with the small integer   *)
(* speeds) is exactly representable in f32 and +, -, *, /, % and the       *)
(* `as u32` truncation agree with integer arithmetic.                      *)
(***************************************************************************)
EXTENDS Integers, Sequences, FiniteSets, TLC

(* ---------------------------------------------------------------- bounds *)
\* the tick driver supplies deltas of 0, 2, ..., 2 * MaxDelta time units
MaxDelta == 3
\* seek_to targets are -2 * MaxSeek, ..., -2, 0, 2, ..., 2 * MaxSeek
MaxSeek == 3
\* RepeatAnimation::Count(n) is drawn with n in 0..MaxCount
MaxCount == 2
\* ticks that would push elapsed beyond this are not explored
MaxElapsed == 4
\* ticks that would push completions beyond this are not explored
MaxCompletions == 2
\* the playback scenarios draw clips with timestamps 0, 2, ..., 2 * MaxClipTime
\* and durations 2, 4, ..., 2 * (MaxClipTime + 1)
MaxClipTime == 3

(* ------------------------------------------------------------ Option<T> *)
None == <<>>
Some(x) == <<x>>

Abs(x) == IF x < 0 THEN -x ELSE x

(* --------------------------------------------------------- clip store *)
\* Handle::default() refers to no loaded clip
DefaultHandle == "default"
ClipIds == {"walk", "full"}
Handles == ClipIds \cup {DefaultHandle}

\* Assets<AnimationClip2D>: clips as AnimationClip2D::new accepts them.
\* "walk" has the timestamps new() derives for 3 keyframes (i / len * duration)
\* and a range of atlas indices as keyframes; "full" has explicit timestamps
\* whose last one equals the duration.
\* AnimationClip2D.events of a clip that binds no event to any frame
NoEvents == <<>>

AnimationClips ==
  [ walk |-> [keyframe_timestamps |-> <<0, 2, 4>>, keyframes |-> <<1, 2, 3>>, duration |-> 6,
              events |-> NoEvents],
    full |-> [keyframe_timestamps |-> <<0, 2>>, keyframes |-> <<0, 1>>, duration |-> 2,
              events |-> NoEvents] ]

(* ------------------------------------------------------ RepeatAnimation *)
Never == [kind |-> "Never", n |-> 0]
Forever == [kind |-> "Forever", n |-> 0]
Count(n) == [kind |-> "Count", n |-> n]
RepeatModes == {Never, Forever} \cup {Count(n) : n \in 0..MaxCount}

\* forward, stopped and reverse playback
Speeds == {-1, 0, 1}
Deltas == {2 * k : k \in 0..MaxDelta}
SeekTargets == {2 * k : k \in (-MaxSeek)..MaxSeek}

VARIABLES
  animation,     \* AnimationPlayer2D.animation : PlayingAnimation2D
  paused,        \* AnimationPlayer2D.paused
  changed,       \* change detection: the component was written since the last tick
  sprite_index,  \* the frame sink (TextureAtlasSprite.index)
  assets,        \* Assets<AnimationClip2D>: the loaded clips by handle
  asset_events,  \* AssetEvent<AnimationClip2D> not yet read by the event cache
  event_cache,   \* AnimationEventCache: clip id -> the clip's events
  event_writer,  \* the batch written by the last run of send_animation_event
  new_result,    \* the last call of AnimationClip2D::new: its arguments and its result
  legacy,        \* an entity with a SpriteSheetAnimationPlayer and its sprite, if any
  second,        \* a second entity with an AnimationPlayer2D and a sprite, if any
  update_run,    \* observer: what happened since the cursor was last (re)started
  shown,         \* observer: the frames displayed so far, one entry per change
  last_op        \* observer: the last call or tick, "off" where it is not recorded

vars == <<animation, paused, changed, sprite_index, assets, asset_events, event_cache,
          event_writer, new_result, legacy, second, update_run, shown, last_op>>

(* ----------------------------------------------------- PlayingAnimation2D *)
PlayingAnimation2D_default ==
  [ repeat |-> Never,
    speed |-> 1,
    elapsed |-> 0,
    duration |-> None,
    last_frame |-> None,
    frame |-> None,
    seek_time |-> 0,
    animation_clip |-> DefaultHandle,
    completions |-> 0,
    completions_this_update |-> 0 ]

\* mutant: Forever is treated like Never
finished_forever_ends(a) ==
  CASE a.repeat.kind = "Count" -> a.completions >= a.repeat.n
    [] OTHER -> a.completions >= 1

\* mutant: Count(n) needs more than n completions
finished_count_exclusive(a) ==
  CASE a.repeat.kind = "Forever" -> FALSE
    [] a.repeat.kind = "Never" -> a.completions >= 1
    [] a.repeat.kind = "Count" -> a.completions > a.repeat.n

finished(a) ==
  CASE a.repeat.kind = "Forever" -> FALSE
    [] a.repeat.kind = "Never" -> a.completions >= 1
    [] a.repeat.kind = "Count" -> a.completions >= a.repeat.n

just_finished_cycle(a) == a.completions_this_update > 0

just_finished(a) == finished(a) /\ just_finished_cycle(a)

\* update with one step of it changed, for the mutants below:
\* "stale" does not reset completions_this_update, "thaw" has no early return,
\* "crossing" does not count the crossing of 0, "negative" does not wrap a
\* negative position, "overshoot" has no terminal clamp, "unwrapped" does not wrap
\* a position at or beyond the duration, "clock" lets elapsed run on when finished,
\* "uncounted" counts no completion
update_changed(a, dt, clip_duration, what) ==
  LET a0 == IF what = "stale" THEN a ELSE [a EXCEPT !.completions_this_update = 0] IN
  IF what # "thaw" /\ finished(a0)
  THEN IF what = "clock" THEN [a0 EXCEPT !.elapsed = a0.elapsed + dt] ELSE a0
  ELSE
    LET elapsed == a0.elapsed + dt
        seek == a0.seek_time + dt * a0.speed
        quotient == Abs(seek) \div clip_duration
        ctu == IF what = "uncounted" THEN 0
               ELSE quotient + (IF seek < 0 /\ what # "crossing" THEN 1 ELSE 0)
        modulo == Abs(seek) % clip_duration
        wrapped == IF seek >= clip_duration /\ what # "unwrapped" THEN modulo
                   ELSE IF seek < 0 /\ what # "negative" THEN clip_duration - modulo
                   ELSE seek
        a1 == [a0 EXCEPT !.elapsed = elapsed,
                         !.seek_time = wrapped,
                         !.completions_this_update = ctu,
                         !.completions = a0.completions + ctu]
    IN IF what # "overshoot" /\ finished(a1)
       THEN [a1 EXCEPT !.seek_time = clip_duration]
       ELSE a1

update_stale_completions(a, dt, clip_duration) ==
  update_changed(a, dt, clip_duration, "stale")

update_no_freeze(a, dt, clip_duration) ==
  update_changed(a, dt, clip_duration, "thaw")

update_no_zero_crossing(a, dt, clip_duration) ==
  update_changed(a, dt, clip_duration, "crossing")

update_no_negative_wrap(a, dt, clip_duration) ==
  update_changed(a, dt, clip_duration, "negative")

update_no_terminal_clamp(a, dt, clip_duration) ==
  update_changed(a, dt, clip_duration, "overshoot")

update_no_forward_wrap(a, dt, clip_duration) ==
  update_changed(a, dt, clip_duration, "unwrapped")

update_elapsed_runs_on(a, dt, clip_duration) ==
  update_changed(a, dt, clip_duration, "clock")

update_counts_nothing(a, dt, clip_duration) ==
  update_changed(a, dt, clip_duration, "uncounted")

update(a, dt, clip_duration) ==
  LET a0 == [a EXCEPT !.completions_this_update = 0] IN
  IF finished(a0) THEN a0
  ELSE
    LET elapsed == a0.elapsed + dt
        seek == a0.seek_time + dt * a0.speed
        quotient == Abs(seek) \div clip_duration
        ctu == quotient + (IF seek < 0 THEN 1 ELSE 0)
        modulo == Abs(seek) % clip_duration
        wrapped == IF seek >= clip_duration THEN modulo
                   ELSE IF seek < 0 THEN clip_duration - modulo
                   ELSE seek
        a1 == [a0 EXCEPT !.elapsed = elapsed,
                         !.seek_time = wrapped,
                         !.completions_this_update = ctu,
                         !.completions = a0.completions + ctu]
    IN IF finished(a1) THEN [a1 EXCEPT !.seek_time = clip_duration] ELSE a1

\* mutant: the completions counted so far survive
replay_keeps_completions(a) ==
  [a EXCEPT !.completions_this_update = 0,
            !.elapsed = 0,
            !.seek_time = 0]

replay(a) ==
  [a EXCEPT !.completions_this_update = 0,
            !.completions = 0,
            !.elapsed = 0,
            !.seek_time = 0]

(* -------------------------------------------------------- frame resolver *)
\* slice::binary_search_by on the timestamps: Ok(i) for a position holding x (any
\* one of them when several do), else Err(i) with i the insertion point.
\* Positions are 0-based as in the source.
binary_search(ts, x) ==
  LET hits == {i \in 0..(Len(ts) - 1) : ts[i + 1] = x}
      below == Cardinality({i \in 0..(Len(ts) - 1) : ts[i + 1] < x})
  IN IF hits # {} THEN {[ok |-> TRUE, i |-> i] : i \in hits}
     ELSE {[ok |-> FALSE, i |-> below]}

\* mutant: a position between two timestamps resolves to the keyframe after it
resolve_index_next_keyframe(r, len) ==
  IF r.ok /\ r.i >= len - 1 THEN None
  ELSE IF r.ok THEN Some(r.i)
  ELSE IF r.i = 0 THEN None
  ELSE IF r.i >= len THEN None
  ELSE Some(r.i)

\* mutant: an insertion point past the last index yields no frame
resolve_index_exhausted(r, len) ==
  IF r.ok /\ r.i >= len - 1 THEN None
  ELSE IF r.ok THEN Some(r.i)
  ELSE IF r.i = 0 THEN None
  ELSE IF r.i > len - 1 THEN None
  ELSE Some(r.i - 1)

\* mutant: a position between two timestamps is counted from the end of the clip
resolve_index_from_end(r, len) ==
  IF r.ok /\ r.i >= len - 1 THEN None
  ELSE IF r.ok THEN Some(r.i)
  ELSE IF r.i = 0 THEN None
  ELSE IF r.i > len THEN None
  ELSE Some(len - r.i)

\* the match arms that turn a search result into the frame to display
resolve_index(r, len) ==
  IF r.ok /\ r.i >= len - 1 THEN None
  ELSE IF r.ok THEN Some(r.i)
  ELSE IF r.i = 0 THEN None
  ELSE IF r.i > len THEN None
  ELSE Some(r.i - 1)

(* ------------------------------------------------------ AnimationPlayer2D *)
\* mutant: the new cursor repeats for ever
start_from_time_repeating(handle, elapsed, seek_time) ==
  [PlayingAnimation2D_default EXCEPT !.animation_clip = handle,
                                     !.elapsed = elapsed,
                                     !.seek_time = seek_time,
                                     !.repeat = Forever]

start_from_time(handle, elapsed, seek_time) ==
  [PlayingAnimation2D_default EXCEPT !.animation_clip = handle,
                                     !.elapsed = elapsed,
                                     !.seek_time = seek_time]

\* mutant: the frames resolved for the previous clip survive
start_keeps_frames(a, handle) ==
  [start_from_time(handle, 0, 0) EXCEPT !.frame = a.frame, !.last_frame = a.last_frame]

start(a, handle) == start_from_time(handle, 0, 0)

\* mutant: a paused player is not restarted
play_ignores_paused(a, p, handle) ==
  IF a.animation_clip # handle THEN start_from_time(handle, 0, 0) ELSE a

play(a, p, handle) ==
  IF a.animation_clip # handle \/ p THEN start(a, handle) ELSE a

\* mutant: the new clip starts from 0
play_continue_restarts(a, p, handle) ==
  IF a.animation_clip # handle \/ p THEN start_from_time(handle, 0, 0) ELSE a

play_continue(a, p, handle) ==
  IF a.animation_clip # handle \/ p
  THEN start_from_time(handle, a.elapsed, a.seek_time)
  ELSE a

\* frame(): the current frame, 0 when none was resolved yet
frame(a) == IF a.frame = None THEN 0 ELSE a.frame[1]

(* -------------------------------------------------------------- observers *)
\* jf: an update of the current run left just_finished() true;
\* continued: play_continue was called in the current run.
\* A run starts at start, play, replay and set_repeat_mode.
NewRun == [jf |-> FALSE, continued |-> FALSE]

\* the value last_op takes at a step named op
Op(op) == IF last_op = "off" THEN "off" ELSE op

\* every &mut self call goes through Mut::deref_mut and marks the component changed
Api(a) ==
  /\ animation' = a
  /\ changed' = TRUE
  /\ UNCHANGED <<sprite_index, assets, asset_events, event_cache, event_writer, new_result, legacy,
                 second, shown>>

Start(handle) ==
  /\ last_op' = Op("start")
  /\ Api(start(animation, handle))
  /\ update_run' = NewRun
  /\ UNCHANGED paused

Play(handle) ==
  /\ last_op' = Op("play")
  /\ Api(play(animation, paused, handle))
  /\ update_run' = NewRun
  /\ UNCHANGED paused

PlayContinue(handle) ==
  /\ last_op' = Op("play_continue")
  /\ Api(play_continue(animation, paused, handle))
  /\ update_run' = [update_run EXCEPT !.continued = TRUE]
  /\ UNCHANGED paused

Repeat ==
  /\ last_op' = Op("repeat")
  /\ Api([animation EXCEPT !.repeat = Forever])
  /\ UNCHANGED <<paused, update_run>>

SetRepeatMode(repeat) ==
  /\ last_op' = Op("set_repeat_mode")
  /\ Api([animation EXCEPT !.repeat = repeat])
  /\ update_run' = NewRun
  /\ UNCHANGED paused

Pause ==
  /\ last_op' = Op("pause")
  /\ Api(animation)
  /\ paused' = TRUE
  /\ UNCHANGED update_run

Resume ==
  /\ last_op' = Op("resume")
  /\ Api(animation)
  /\ paused' = FALSE
  /\ UNCHANGED update_run

SetSpeed(speed) ==
  /\ last_op' = Op("set_speed")
  /\ Api([animation EXCEPT !.speed = speed])
  /\ UNCHANGED <<paused, update_run>>

SeekTo(seek_time) ==
  /\ last_op' = Op("seek_to")
  /\ Api([animation EXCEPT !.seek_time = seek_time])
  /\ UNCHANGED <<paused, update_run>>

Replay ==
  /\ last_op' = Op("replay")
  /\ Api(replay(animation))
  /\ update_run' = NewRun
  /\ UNCHANGED paused

(* ------------------------------------------------------- animation system *)
\* "Advance timer": the cursor is advanced by the tick's delta unless paused
advance(a, p, dt, clip) == IF p THEN a ELSE update(a, dt, clip.duration)

\* the resolved frame is recorded on the cursor, the previous one kept as last_frame
store_frame(a, index) == [a EXCEPT !.last_frame = a.frame, !.frame = Some(index)]

\* no frame was resolved: the frame of the previous tick stays and is now also the
\* previous frame
keep_frame(a) == [a EXCEPT !.last_frame = a.frame]

\* the result of a run for one instance: its cursor and its frame sink
Applied(a, index) == [animation |-> a, sprite_index |-> index]

\* mutant: an instance whose clip is missing is started over
apply_animation_player_spritesheet_restarts(a, p, index, dt) ==
  IF a.animation_clip \notin DOMAIN assets
  THEN {Applied(start_from_time(a.animation_clip, 0, 0), 0)}
  ELSE
    LET clip == assets[a.animation_clip]
        a1 == advance(a, p, dt, clip)
        len == Len(clip.keyframe_timestamps)
    IN {LET resolved == resolve_index(r, len) IN
        IF resolved = None
        THEN Applied(keep_frame(a1), index)
        ELSE Applied(store_frame(a1, resolved[1]), clip.keyframes[resolved[1] + 1]) :
          r \in binary_search(clip.keyframe_timestamps, a1.seek_time)}

apply_animation_player_spritesheet(a, p, index, dt) ==
  IF a.animation_clip \notin DOMAIN assets
  THEN {Applied(a, index)}
  ELSE
    LET clip == assets[a.animation_clip]
        a1 == advance(a, p, dt, clip)
        len == Len(clip.keyframe_timestamps)
    IN {LET resolved == resolve_index(r, len) IN
        IF resolved = None
        THEN Applied(keep_frame(a1), index)
        ELSE Applied(store_frame(a1, resolved[1]), clip.keyframes[resolved[1] + 1]) :
          r \in binary_search(clip.keyframe_timestamps, a1.seek_time)}

\* mutant: a paused instance is processed whether or not it was written
run_animation_player_spritesheet_always(a, p, c, index, dt) ==
  apply_animation_player_spritesheet(a, p, index, dt)

\* p is the paused flag of the instance, c whether it was written since the last run
run_animation_player_spritesheet(a, p, c, index, dt) ==
  IF p /\ ~c
  THEN {Applied(a, index)}
  ELSE apply_animation_player_spritesheet(a, p, index, dt)

\* a second entity with a player, if the world has one
Player(a, p, c, index) ==
  [animation |-> a, paused |-> p, changed |-> c, sprite_index |-> index]

\* one run of the system with the delta the tick driver supplies: every instance
\* is processed on its own; the system's own writes are not seen as changes by
\* its next run
animation_player_spritesheet(dt) ==
  /\ \E run \in run_animation_player_spritesheet(animation, paused, changed,
                                                  sprite_index, dt) :
       /\ animation' = run.animation
       /\ sprite_index' = run.sprite_index
  /\ changed' = FALSE
  /\ IF second = None
     THEN second' = None
     ELSE \E run \in run_animation_player_spritesheet(
                       second[1].animation, second[1].paused, second[1].changed,
                       second[1].sprite_index, dt) :
            second' = Some(Player(run.animation, second[1].paused, FALSE,
                                  run.sprite_index))
  /\ UNCHANGED <<paused, assets>>

\* the tick calls update(dt, clip.duration) when the instance is not paused and
\* its clip is loaded
UpdateCalled == ~paused /\ animation.animation_clip \in DOMAIN assets

BoundClip == assets[animation.animation_clip]

Tick(dt) ==
  /\ animation_player_spritesheet(dt)
  /\ animation'.elapsed <= MaxElapsed
  /\ animation'.completions <= MaxCompletions
  /\ update_run' = IF UpdateCalled /\ just_finished(animation')
                   THEN [update_run EXCEPT !.jf = TRUE]
                   ELSE update_run
  /\ last_op' = Op("tick")
  /\ UNCHANGED <<asset_events, event_cache, event_writer, new_result, legacy, shown>>

Init ==
  /\ animation = PlayingAnimation2D_default
  /\ paused = FALSE
  /\ changed = TRUE
  /\ sprite_index = 0
  /\ assets = AnimationClips
  /\ asset_events = <<>>
  /\ event_cache = <<>>
  /\ event_writer = <<>>
  /\ new_result = None
  /\ legacy = None
  /\ second = None
  /\ update_run = NewRun
  /\ shown = <<>>
  /\ last_op = "off"

Next ==
  \/ \E h \in Handles : Start(h)
  \/ \E h \in Handles : Play(h)
  \/ \E h \in Handles : PlayContinue(h)
  \/ Repeat
  \/ \E r \in RepeatModes : SetRepeatMode(r)
  \/ Pause
  \/ Resume
  \/ \E s \in Speeds : SetSpeed(s)
  \/ \E t \in SeekTargets : SeekTo(t)
  \/ Replay
  \/ \E dt \in Deltas : Tick(dt)

Spec == Init /\ [][Next]_vars

(* ================================================================ claims *)
\* a step in which the system called update(dt, clip.duration) on the cursor
UpdateCall(dt) == UpdateCalled /\ ~changed' /\ Tick(dt)

Last(clip) == Len(clip.keyframe_timestamps) - 1

(* C1 as stated: whenever an update call leaves a cursor (policy Never or
   Count(n)) finished, seek_time equals clip_duration after that call. *)
C1_TerminalClampEveryUpdate ==
  [][\A dt \in Deltas :
       (UpdateCall(dt) /\ finished(animation'))
         => animation'.seek_time = BoundClip.duration]_vars

(* C1 amended: whenever an update call on a cursor that was not finished before
   the call leaves it finished, seek_time equals clip_duration after the call,
   for every delta and either sign of speed. *)
C1_TerminalClamp ==
  [][\A dt \in Deltas :
       (UpdateCall(dt) /\ ~finished(animation) /\ finished(animation'))
         => animation'.seek_time = BoundClip.duration]_vars

\* a reverse update has just finished a Count(n) cursor, which sits at the end
C1_Witness ==
  /\ animation.animation_clip \in DOMAIN assets
  /\ animation.repeat.kind = "Count"
  /\ animation.speed < 0
  /\ just_finished(animation)
  /\ animation.seek_time = BoundClip.duration
  /\ ~changed /\ ~paused

(* C5: an update call on a cursor that is already finished leaves elapsed,
   seek_time and completions unchanged and sets completions_this_update to 0,
   for every delta. *)
C5_FinishedFreeze ==
  [][\A dt \in Deltas :
       (UpdateCall(dt) /\ finished(animation))
         => /\ animation'.elapsed = animation.elapsed
            /\ animation'.seek_time = animation.seek_time
            /\ animation'.completions = animation.completions
            /\ animation'.completions_this_update = 0]_vars

\* a finished Never cursor has been through a later update: its
\* completions_this_update is back to 0 while completions stays
C5_Witness ==
  /\ animation.animation_clip \in DOMAIN assets
  /\ animation.repeat.kind = "Never"
  /\ animation.completions >= 1
  /\ animation.completions_this_update = 0
  /\ animation.elapsed > 0
  /\ ~changed /\ ~paused

(* C6: finished() is true exactly when the policy is Never and completions >= 1
   or the policy is Count(n) and completions >= n; a Forever cursor is not
   finished in any reachable state. *)
C6_FinishedByPolicy ==
  /\ finished(animation) <=>
       \/ animation.repeat = Never /\ animation.completions >= 1
       \/ /\ animation.repeat.kind = "Count"
          /\ animation.completions >= animation.repeat.n
  /\ animation.repeat = Forever => ~finished(animation)

\* a Forever cursor with several completions
C6_Witness ==
  /\ animation.repeat = Forever
  /\ animation.completions >= 2

(* C7 as stated: just_finished() = finished() && completions_this_update > 0,
   and in a run of updates with no intervening start, play, replay or
   set_repeat_mode it is true after at most one update. *)
C7_JustFinishedOncePerRun ==
  [][/\ just_finished(animation') <=>
          (finished(animation') /\ animation'.completions_this_update > 0)
     /\ \A dt \in Deltas :
          (UpdateCall(dt) /\ update_run.jf) => ~just_finished(animation')]_vars

(* C7 amended: just_finished() = finished() && completions_this_update > 0, and
   in a run of updates with no intervening start, play, play_continue, replay or
   set_repeat_mode it is true after at most one update (the one that made the
   cursor finished) and false after every later update. *)
C7_JustFinishedOnce ==
  [][/\ just_finished(animation') <=>
          (finished(animation') /\ animation'.completions_this_update > 0)
     /\ \A dt \in Deltas :
          (UpdateCall(dt) /\ update_run.jf /\ ~update_run.continued)
            => ~just_finished(animation')]_vars

\* an update finished the cursor and a later update of the same run has run
C7_Witness ==
  /\ update_run.jf /\ ~update_run.continued
  /\ finished(animation)
  /\ animation.completions_this_update = 0
  /\ ~changed /\ ~paused

(* C8 as stated: after every update call that leaves the cursor not finished,
   seek_time lies in [0, clip_duration). *)
C8_SeekWrappedHalfOpen ==
  [][\A dt \in Deltas :
       (UpdateCall(dt) /\ ~finished(animation'))
         => /\ 0 <= animation'.seek_time
            /\ animation'.seek_time < BoundClip.duration]_vars

(* C8 amended: after every update call that leaves the cursor not finished,
   seek_time lies in the closed range [0, clip_duration], for every prior
   seek_time, every delta and either sign of speed; it equals clip_duration
   when a negative position is a whole number of durations below 0. *)
C8_SeekWrapped ==
  [][\A dt \in Deltas :
       (UpdateCall(dt) /\ ~finished(animation'))
         => /\ 0 <= animation'.seek_time
            /\ animation'.seek_time <= BoundClip.duration
            /\ (animation'.seek_time = BoundClip.duration
                  => LET seek == animation.seek_time + dt * animation.speed
                     IN seek < 0 /\ (-seek) % BoundClip.duration = 0)]_vars

\* a reverse update of a Forever cursor went exactly one duration below 0 and
\* was wrapped to the end of the clip
C8_Witness ==
  /\ animation.animation_clip \in DOMAIN assets
  /\ animation.repeat = Forever
  /\ animation.speed < 0
  /\ animation.completions_this_update = 2
  /\ animation.seek_time = BoundClip.duration
  /\ ~changed /\ ~paused

(* C9: seek_time() is within [0, clip_duration] in every reachable state of a
   cursor bound to a clip. *)
C9_SeekTimeInRange ==
  animation.animation_clip \in DOMAIN assets
    => /\ 0 <= animation.seek_time
       /\ animation.seek_time <= BoundClip.duration

(* C10: on an update of a non-finished cursor, with s = seek_time + delta * speed,
   completions_this_update is floor(|s| / clip_duration) plus 1 if s < 0, and
   completions grows by exactly that amount. *)
C10_CompletionsCount ==
  [][\A dt \in Deltas :
       (UpdateCall(dt) /\ ~finished(animation))
         => LET s == animation.seek_time + dt * animation.speed
                n == (Abs(s) \div BoundClip.duration) + (IF s < 0 THEN 1 ELSE 0)
            IN /\ animation'.completions_this_update = n
               /\ animation'.completions = animation.completions + n]_vars

\* a reverse update went a whole duration or more below 0: one completion for
\* crossing 0 and one per further duration
C10_Witness ==
  /\ animation.animation_clip \in DOMAIN assets
  /\ animation.speed < 0
  /\ animation.completions_this_update = 2
  /\ animation.completions = 2
  /\ ~changed /\ ~paused

(* C3: for a cursor with policy Never or Count(n), one update whose delta is
   several multiples of clip_duration and that runs past the end, followed by
   resolve, yields the last frame index N-1, and completions_this_update is the
   number of cycles covered by that call. *)
C3_LargeDeltaSafety ==
  [][\A dt \in Deltas :
       (/\ UpdateCall(dt)
        /\ ~finished(animation)
        /\ animation.speed = 1
        /\ animation.seek_time \in 0..BoundClip.duration
        /\ dt >= 2 * BoundClip.duration
        /\ finished(animation'))
         => /\ animation'.frame = Some(Last(BoundClip))
            /\ animation'.completions_this_update =
                 (animation.seek_time + dt) \div BoundClip.duration]_vars

(* --------------------------------------------------- playback scenarios *)
\* the clips AnimationClip2D::new accepts over the scenario's time grid, with
\* strictly increasing timestamps and the atlas range 0..N as keyframes
ScenarioTimes == {2 * k : k \in 0..MaxClipTime}
ScenarioClips ==
  { [keyframe_timestamps |-> ts,
     keyframes |-> [i \in 1..Len(ts) |-> i - 1],
     duration |-> d,
     events |-> NoEvents] :
      ts \in {t \in UNION {[1..n -> ScenarioTimes] : n \in 1..3} :
                \A i \in 1..(Len(t) - 1) : t[i] < t[i + 1]},
      d \in {2 * k : k \in 1..(MaxClipTime + 1)} } 

ValidScenarioClips ==
  {c \in ScenarioClips : c.keyframe_timestamps[Len(c.keyframe_timestamps)] <= c.duration}

\* a fresh player that was told to start the one loaded clip
InitScenario(repeat) ==
  /\ \E c \in ValidScenarioClips : assets = [h \in {"clip"} |-> c]
  /\ animation = [start(PlayingAnimation2D_default, "clip") EXCEPT !.repeat = repeat]
  /\ paused = FALSE
  /\ changed = TRUE
  /\ sprite_index = 0
  /\ asset_events = <<>>
  /\ event_cache = <<>>
  /\ event_writer = <<>>
  /\ new_result = None
  /\ legacy = None
  /\ second = None
  /\ update_run = NewRun
  /\ shown = <<>>
  /\ last_op = "off"

\* a tick of the system; shown records the frame whenever the displayed one changes
ScenarioTick(dt) ==
  /\ animation_player_spritesheet(dt)
  /\ shown' = IF animation'.frame # animation.frame
              THEN Append(shown, animation'.frame[1])
              ELSE shown
  /\ UNCHANGED <<asset_events, event_cache, event_writer, new_result, legacy, update_run, last_op>>

\* deltas below the smallest distance between two timestamps (2)
PlayDeltas == {1}

InitPlay == InitScenario(Never)

PlayTick(dt) == ScenarioTick(dt)

NextPlay == \E dt \in PlayDeltas : PlayTick(dt)

SpecPlay == InitPlay /\ [][NextPlay]_vars

FrameIndices(clip) == [i \in 1..Len(clip.keyframe_timestamps) |-> i - 1]

IsPrefix(p, q) == Len(p) <= Len(q) /\ \A i \in 1..Len(p) : p[i] = q[i]

(* C2: with speed 1 and policy Never, ticks with small positive deltas display
   the frame indices 0, 1, ..., N-1 in order, each exactly once, and when the
   deltas sum to the duration the cursor is finished with N-1 displayed. *)
C2_MonotonicFrameAdvance ==
  /\ IsPrefix(shown, FrameIndices(BoundClip))
  /\ animation.elapsed = BoundClip.duration
       => /\ finished(animation)
          /\ shown = FrameIndices(BoundClip)

\* Count(3): the deltas are any positive values that together do not exceed
\* three durations
InitCount == InitScenario(Count(3))

CountTick(dt) ==
  /\ finished(animation) \/ animation.elapsed + dt <= 3 * BoundClip.duration
  /\ ScenarioTick(dt)

NextCount == \E dt \in 1..(2 * MaxDelta) : CountTick(dt)

SpecCount == InitCount /\ [][NextCount]_vars

(* C4: with policy Count(3), speed 1 and updates whose deltas sum to exactly 3
   clip durations, the cursor ends with completions = 3 and finished() (and is
   not finished before), and every later update leaves completions_this_update
   at 0 and completions at 3. *)
C4_RepeatCountTermination ==
  [][/\ animation'.elapsed = 3 * BoundClip.duration
          => animation'.completions = 3 /\ finished(animation')
     /\ animation'.elapsed < 3 * BoundClip.duration => ~finished(animation')
     /\ finished(animation)
          => /\ animation'.completions_this_update = 0
             /\ animation'.completions = 3]_vars

\* three durations were played and a later update has run
C4_Witness ==
  /\ animation.elapsed = 3 * BoundClip.duration
  /\ animation.completions = 3
  /\ finished(animation)
  /\ animation.completions_this_update = 0

(* ------------------------------------------------------ worked example *)
\* The example clip: timestamps 0.0, 0.2, 0.4 s for the atlas indices 10, 11, 12
\* and a duration of 0.6 s.  This scenario counts time in units of 0.05 s:
\* its deltas 0.25 s and 0.20 s are 5 and 4.  The f32 values of the source
\* differ from these exact ones by rounding only (0.45 and 0.05 come out as
\* 0.44999999 and 0.04999995), which moves no position across a timestamp.
DemoClip ==
  [keyframe_timestamps |-> <<0, 4, 8>>, keyframes |-> <<10, 11, 12>>, duration |-> 12,
   events |-> NoEvents]

DemoDeltas == {4, 5}

\* the example is played on for this many clip durations
MaxDemoCycles == 4

\* a fresh player that was told to start the example clip and to repeat it forever
InitDemo ==
  /\ assets = [h \in {"clip"} |-> DemoClip]
  /\ animation = [start(PlayingAnimation2D_default, "clip") EXCEPT !.repeat = Forever]
  /\ paused = FALSE
  /\ changed = TRUE
  /\ sprite_index = 0
  /\ asset_events = <<>>
  /\ event_cache = <<>>
  /\ event_writer = <<>>
  /\ new_result = None
  /\ legacy = None
  /\ second = None
  /\ update_run = NewRun
  /\ shown = <<>>
  /\ last_op = "off"

DemoTick(dt) ==
  /\ animation.elapsed + dt <= MaxDemoCycles * DemoClip.duration
  /\ ScenarioTick(dt)

NextDemo == \E dt \in DemoDeltas : DemoTick(dt)

SpecDemo == InitDemo /\ [][NextDemo]_vars

(* C11: the example clip (timestamps 0.0, 0.2, 0.4, atlas indices 10, 11, 12,  *)
(* duration 0.6) repeated forever from position 0: once 0.25 s have been       *)
(* played the position is 0.25 and frame 1 is displayed; after 0.20 s more the *)
(* position is 0.45 and frame 2 is displayed; after another 0.20 s the         *)
(* position has wrapped to 0.05, one completion is counted and frame 0 is      *)
(* displayed.                                                                  *)
C11_WorkedExample ==
  /\ animation.elapsed = 5 =>
       /\ animation.seek_time = 5
       /\ animation.completions = 0
       /\ animation.frame = Some(1)
       /\ sprite_index = 11
  /\ animation.elapsed = 9 =>
       /\ animation.seek_time = 9
       /\ animation.completions = 0
       /\ animation.frame = Some(2)
       /\ sprite_index = 12
  /\ animation.elapsed = 13 =>
       /\ animation.seek_time = 1
       /\ animation.completions = 1
       /\ animation.frame = Some(0)
       /\ sprite_index = 10

\* the third tick of the example has wrapped the position and shows frame 0 again
C11_Witness ==
  /\ animation.elapsed = 13
  /\ animation.seek_time = 1
  /\ animation.completions = 1
  /\ animation.completions_this_update = 1
  /\ shown = <<1, 2, 0>>
  /\ sprite_index = 10

(* ------------------------------------------------------ reverse playback *)
\* a fresh player that was told to start the one loaded clip, to play it backwards
\* (set_speed(-1.0)) and to begin at its end (seek_to(duration))
InitReverse ==
  /\ \E c \in ValidScenarioClips :
       /\ assets = [h \in {"clip"} |-> c]
       /\ animation = [start(PlayingAnimation2D_default, "clip") EXCEPT
                         !.speed = -1, !.seek_time = c.duration]
  /\ paused = FALSE
  /\ changed = TRUE
  /\ sprite_index = 0
  /\ asset_events = <<>>
  /\ event_cache = <<>>
  /\ event_writer = <<>>
  /\ new_result = None
  /\ legacy = None
  /\ second = None
  /\ update_run = NewRun
  /\ shown = <<>>
  /\ last_op = "off"

ReverseTick(dt) == ScenarioTick(dt)

NextReverse == \E dt \in PlayDeltas : ReverseTick(dt)

SpecReverse == InitReverse /\ [][NextReverse]_vars

ReverseFrameIndices(clip) ==
  [i \in 1..Len(clip.keyframe_timestamps) |-> Len(clip.keyframe_timestamps) - i]

(* C12: a clip of N keyframes played at speed -1.0 from seek_time = duration   *)
(* with small positive deltas displays the frame indices N-1, N-2, ..., 0 in   *)
(* that order: while the position travels back to 0 the frames displayed are   *)
(* a prefix of that sequence, and all of it once the position has reached 0.   *)
C12_ReversePlayback ==
  /\ animation.elapsed <= BoundClip.duration =>
       IsPrefix(shown, ReverseFrameIndices(BoundClip))
  /\ animation.elapsed = BoundClip.duration =>
       shown = ReverseFrameIndices(BoundClip)

(* -------------------------------------------------------- event dispatch *)
\* the entity that carries the player
Entity == "player"
\* Entity::PLACEHOLDER, the target of an event that was not targeted yet
Placeholder == "placeholder"

\* a reflected event of type ty stored in a clip for frame f
Reflected(ty, f) == [type |-> ty, id |-> f, target |-> Placeholder]

\* T::from_reflect on each stored event: the ones of the event type T, in order
RECURSIVE from_reflect(_)
from_reflect(events) ==
  IF events = <<>> THEN <<>>
  ELSE IF Head(events).type = "T"
       THEN <<Head(events)>> \o from_reflect(Tail(events))
       ELSE from_reflect(Tail(events))

inner_map(clip) == [f \in DOMAIN clip.events |-> from_reflect(clip.events[f])]

\* mutant: the entry of a removed clip is kept
cache_asset_event_keeps_removed(cache, asset_event) ==
  IF asset_event.kind \in {"Added", "Modified", "LoadedWithDependencies"}
  THEN IF asset_event.id \in DOMAIN assets
       THEN [id \in DOMAIN cache \cup {asset_event.id} |->
               IF id = asset_event.id THEN inner_map(assets[id]) ELSE cache[id]]
       ELSE cache
  ELSE cache

\* mutant: the entry of a modified clip is not rebuilt
cache_asset_event_ignores_modified(cache, asset_event) ==
  IF asset_event.kind \in {"Added", "LoadedWithDependencies"}
  THEN IF asset_event.id \in DOMAIN assets
       THEN [id \in DOMAIN cache \cup {asset_event.id} |->
               IF id = asset_event.id THEN inner_map(assets[id]) ELSE cache[id]]
       ELSE cache
  ELSE IF asset_event.kind = "Modified" THEN cache
  ELSE [id \in DOMAIN cache \ {asset_event.id} |-> cache[id]]

\* one AssetEvent<AnimationClip2D> applied to the cache
cache_asset_event(cache, asset_event) ==
  IF asset_event.kind \in {"Added", "Modified", "LoadedWithDependencies"}
  THEN IF asset_event.id \in DOMAIN assets
       THEN [id \in DOMAIN cache \cup {asset_event.id} |->
               IF id = asset_event.id THEN inner_map(assets[id]) ELSE cache[id]]
       ELSE cache
  ELSE [id \in DOMAIN cache \ {asset_event.id} |-> cache[id]]

\* the loop over the asset events read in one run
RECURSIVE update_animation_event_cache(_, _)
update_animation_event_cache(cache, queue) ==
  IF queue = <<>> THEN cache
  ELSE update_animation_event_cache(cache_asset_event(cache, Head(queue)), Tail(queue))

set_target(events, entity) == [i \in DOMAIN events |-> [events[i] EXCEPT !.target = entity]]

\* mutant: the frames are not compared, the events of the current frame are
\* collected on every run
collect_events_every_tick(a, cache) ==
  IF a.animation_clip \in DOMAIN cache /\ frame(a) \in DOMAIN cache[a.animation_clip]
  THEN set_target(cache[a.animation_clip][frame(a)], Entity)
  ELSE <<>>

\* mutant: the events are sent without their target
collect_events_untargeted(a, cache) ==
  IF /\ a.animation_clip \in DOMAIN cache
     /\ a.last_frame # a.frame
     /\ frame(a) \in DOMAIN cache[a.animation_clip]
  THEN cache[a.animation_clip][frame(a)]
  ELSE <<>>

\* mutant: a cursor without a frame is taken to be at frame 0
collect_events_unresolved_at_first(a, cache) ==
  IF /\ a.animation_clip \in DOMAIN cache
     /\ a.last_frame # Some(frame(a))
     /\ frame(a) \in DOMAIN cache[a.animation_clip]
  THEN set_target(cache[a.animation_clip][frame(a)], Entity)
  ELSE <<>>

\* the events collected for the player
collect_events(a, cache) ==
  IF /\ a.animation_clip \in DOMAIN cache
     /\ a.last_frame # a.frame
     /\ frame(a) \in DOMAIN cache[a.animation_clip]
  THEN set_target(cache[a.animation_clip][frame(a)], Entity)
  ELSE <<>>

\* PostUpdate with the event systems added for the event type T: the animation
\* system runs before the event system set, in which the cache is updated before
\* the events are collected and sent as one batch
animation_event_systems(dt) ==
  /\ animation_player_spritesheet(dt)
  /\ event_cache' = update_animation_event_cache(event_cache, asset_events)
  /\ asset_events' = <<>>
  /\ event_writer' = collect_events(animation', event_cache')

\* the scenario clip: four keyframes, 2 time units apart
EventTimestamps == <<0, 2, 4, 6>>

\* events of the type T and of another type bound to the frames of one of these sets
EventFrameSets == SUBSET {0, 2, 3}

EventClips ==
  { [keyframe_timestamps |-> EventTimestamps,
     keyframes |-> [i \in 1..Len(EventTimestamps) |-> i - 1],
     duration |-> d,
     events |-> [f \in fs |-> <<Reflected("T", f), Reflected("U", f)>>]] :
      d \in {6, 8}, fs \in EventFrameSets }

EventDeltas == {1, 2}
EventSeeks == {0, 5}

\* elapsed is followed over this many clip durations
MaxEventCycles == 2

\* the clip was added and a fresh player was told to start it; the AssetEvent of
\* the clip is not yet read
InitEvents ==
  /\ \E c \in EventClips : assets = [h \in {"clip"} |-> c]
  /\ \E r \in {Never, Forever} :
       animation = [start(PlayingAnimation2D_default, "clip") EXCEPT !.repeat = r]
  /\ paused = FALSE
  /\ changed = TRUE
  /\ sprite_index = 0
  /\ asset_events = <<[kind |-> "Added", id |-> "clip"]>>
  /\ event_cache = <<>>
  /\ event_writer = <<>>
  /\ new_result = None
  /\ legacy = None
  /\ second = None
  /\ update_run = NewRun
  /\ shown = <<>>
  /\ last_op = "off"

EventTick(dt) ==
  /\ animation_event_systems(dt)
  /\ animation'.elapsed <= MaxEventCycles * BoundClip.duration
  /\ UNCHANGED <<new_result, legacy, update_run, shown, last_op>>

NextEvents ==
  \/ \E dt \in EventDeltas : EventTick(dt)
  \/ Pause
  \/ Resume
  \/ \E t \in EventSeeks : SeekTo(t)
  \/ Replay

SpecEvents == InitEvents /\ [][NextEvents]_vars

\* the events of type T that the bound clip binds to frame f, targeted at the player
BoundEvents(f) ==
  IF f \in DOMAIN BoundClip.events
  THEN set_target(from_reflect(BoundClip.events[f]), Entity)
  ELSE <<>>

ApiDeltas == {2}
ApiSeeks == {4}

InitApi ==
  /\ animation = PlayingAnimation2D_default
  /\ paused = FALSE
  /\ changed = TRUE
  /\ sprite_index = 0
  /\ assets = AnimationClips
  /\ asset_events = <<>>
  /\ event_cache = <<>>
  /\ event_writer = <<>>
  /\ new_result = None
  /\ legacy = None
  /\ second = None
  /\ update_run = NewRun
  /\ shown = <<>>
  /\ last_op = "new"

NextApi ==
  \/ \E h \in Handles : Start(h)
  \/ \E h \in Handles : Play(h)
  \/ \E h \in Handles : PlayContinue(h)
  \/ Repeat
  \/ \E r \in RepeatModes : SetRepeatMode(r)
  \/ Pause
  \/ Resume
  \/ \E s \in Speeds : SetSpeed(s)
  \/ \E t \in ApiSeeks : SeekTo(t)
  \/ Replay
  \/ \E dt \in ApiDeltas : Tick(dt)

SpecApi == InitApi /\ [][NextApi]_vars

(* C15: start(clip), called in any state, binds the clip and resets elapsed,   *)
(* seek_time, completions and completions_this_update to 0 and frame and       *)
(* last_frame to none.                                                         *)
C15_StartResets ==
  [][\A h \in Handles :
       Start(h) =>
         /\ animation'.animation_clip = h
         /\ animation'.elapsed = 0
         /\ animation'.seek_time = 0
         /\ animation'.completions = 0
         /\ animation'.completions_this_update = 0
         /\ animation'.frame = None
         /\ animation'.last_frame = None]_vars

\* start("walk") on a paused player that had displayed the last frame of "walk"
C15_Witness ==
  /\ last_op = "start"
  /\ paused
  /\ sprite_index = 3
  /\ animation.animation_clip = "walk"
  /\ animation.elapsed = 0 /\ animation.seek_time = 0
  /\ animation.frame = None /\ animation.last_frame = None

(* C16: play(clip) leaves every field of the cursor unchanged when clip is     *)
(* already the bound clip and the player is not paused; otherwise its effect   *)
(* is that of start(clip).                                                     *)
C16_PlayIdempotent ==
  [][\A h \in Handles :
       Play(h) =>
         IF animation.animation_clip = h /\ ~paused
         THEN animation' = animation
         ELSE animation' = start(animation, h)]_vars

\* play of the clip that is playing: the progress made so far is still there
C16_Witness ==
  /\ last_op = "play"
  /\ ~paused
  /\ animation.animation_clip = "walk"
  /\ animation.elapsed = 2 /\ animation.seek_time = 2
  /\ animation.frame = Some(1)

(* C17: play_continue(clip) with a clip other than the bound one, or on a      *)
(* paused player, binds the clip and keeps elapsed and seek_time; with the     *)
(* bound clip on a player that is not paused it changes nothing.               *)
C17_PlayContinueKeepsTime ==
  [][\A h \in Handles :
       PlayContinue(h) =>
         IF animation.animation_clip = h /\ ~paused
         THEN animation' = animation
         ELSE /\ animation'.animation_clip = h
              /\ animation'.elapsed = animation.elapsed
              /\ animation'.seek_time = animation.seek_time]_vars

\* play_continue("full") took over the time played on another clip: the frames
\* are reset, elapsed and seek_time are not
C17_Witness ==
  /\ last_op = "play_continue"
  /\ animation.animation_clip = "full"
  /\ animation.elapsed = 4 /\ animation.seek_time = 4
  /\ animation.frame = None

(* C18: replay() sets completions, completions_this_update, elapsed and        *)
(* seek_time to 0 and leaves the bound clip, the speed, the repeat policy and  *)
(* the paused flag unchanged; after it a cursor with the policy Never or       *)
(* Count(n), n >= 1, is not finished and the next update advances it again.    *)
C18_Replay ==
  [][/\ Replay =>
          /\ animation'.completions = 0
          /\ animation'.completions_this_update = 0
          /\ animation'.elapsed = 0
          /\ animation'.seek_time = 0
          /\ animation'.animation_clip = animation.animation_clip
          /\ animation'.speed = animation.speed
          /\ animation'.repeat = animation.repeat
          /\ paused' = paused
          /\ (animation.repeat = Never \/
              (animation.repeat.kind = "Count" /\ animation.repeat.n >= 1)) =>
               ~finished(animation')
     /\ \A dt \in ApiDeltas :
          (/\ last_op = "replay"
           /\ (animation.repeat = Never \/
               (animation.repeat.kind = "Count" /\ animation.repeat.n >= 1))
           /\ UpdateCall(dt)) =>
            /\ animation'.elapsed = dt
            /\ \/ animation'.seek_time # 0
               \/ animation'.completions >= 1
               \/ animation.speed = 0]_vars

\* replay() of a finished cursor with the policy Never that had displayed the
\* last frame of "walk"
C18_Witness ==
  /\ last_op = "replay"
  /\ animation.repeat = Never
  /\ animation.animation_clip = "walk"
  /\ animation.frame = Some(2)
  /\ animation.elapsed = 0 /\ animation.seek_time = 0 /\ animation.completions = 0
  /\ ~finished(animation)

(* --------------------------------------------------------- frame resolver *)
\* The resolver applied to every clip of the scenarios at every position on and
\* between the grid of timestamps: the player is paused, so that a tick after
\* seek_to resolves the frame at exactly the position sought.
ResolveSeeks == (-1)..(2 * (MaxClipTime + 1) + 1)

\* a fresh player that was told to start the one loaded clip and was paused
InitResolve ==
  /\ \E c \in ValidScenarioClips : assets = [h \in {"clip"} |-> c]
  /\ animation = start(PlayingAnimation2D_default, "clip")
  /\ paused = TRUE
  /\ changed = TRUE
  /\ sprite_index = 0
  /\ asset_events = <<>>
  /\ event_cache = <<>>
  /\ event_writer = <<>>
  /\ new_result = None
  /\ legacy = None
  /\ second = None
  /\ update_run = NewRun
  /\ shown = <<>>
  /\ last_op = "off"

ResolveTick(dt) ==
  /\ animation_player_spritesheet(dt)
  /\ UNCHANGED <<asset_events, event_cache, event_writer, new_result, legacy, update_run, shown, last_op>>

NextResolve ==
  \/ \E t \in ResolveSeeks : SeekTo(t)
  \/ \E dt \in PlayDeltas : ResolveTick(dt)

SpecResolve == InitResolve /\ [][NextResolve]_vars

\* the tick resolves the frame at the position the cursor is at
Resolves(dt) == paused /\ changed /\ ResolveTick(dt)

\* the resolver yields no frame: the frame on the cursor and the sink stay as they are
NoFrame == animation'.frame = animation.frame /\ sprite_index' = sprite_index

\* the resolver yields frame i: it is stored on the cursor and its atlas index is
\* written to the sink
FrameIs(i) == animation'.frame = Some(i) /\ sprite_index' = BoundClip.keyframes[i + 1]

(* C19: when seek_time equals the timestamp at position i, the resolver yields *)
(* no frame if i is the last index, except that i = 0 yields frame 0 (a clip   *)
(* of a single keyframe resolved at its only timestamp displays frame 0); an   *)
(* exact match at any other position i yields i.                               *)
C19_ExactMatch ==
  [][\A dt \in PlayDeltas :
       Resolves(dt) =>
         \A i \in 0..Last(BoundClip) :
           BoundClip.keyframe_timestamps[i + 1] = animation.seek_time =>
             IF i = 0 THEN FrameIs(0)
             ELSE IF i = Last(BoundClip) THEN NoFrame
             ELSE FrameIs(i)]_vars

(* C20: when seek_time equals no timestamp and is below the last timestamp,    *)
(* the resolver yields no frame if seek_time is before the first timestamp and *)
(* otherwise the index of the latest keyframe whose timestamp is below         *)
(* seek_time.                                                                  *)
C20_BetweenTimestamps ==
  [][\A dt \in PlayDeltas :
       (/\ Resolves(dt)
        /\ \A i \in 0..Last(BoundClip) :
             BoundClip.keyframe_timestamps[i + 1] # animation.seek_time
        /\ animation.seek_time < BoundClip.keyframe_timestamps[Last(BoundClip) + 1]) =>
         IF animation.seek_time < BoundClip.keyframe_timestamps[1]
         THEN NoFrame
         ELSE \E i \in 0..(Last(BoundClip) - 1) :
                /\ BoundClip.keyframe_timestamps[i + 1] < animation.seek_time
                /\ animation.seek_time < BoundClip.keyframe_timestamps[i + 2]
                /\ FrameIs(i)]_vars

\* a position between the second and the third timestamp was resolved to frame 1
\* after frame 0 had been displayed
C20_Witness ==
  /\ paused /\ ~changed
  /\ BoundClip.keyframe_timestamps = <<0, 2, 6>>
  /\ animation.seek_time = 5
  /\ animation.frame = Some(1) /\ animation.last_frame = Some(0)
  /\ sprite_index = 1

\* the search result of a position that equals no timestamp of the bound clip
NoMatch ==
  \A i \in 0..Last(BoundClip) : BoundClip.keyframe_timestamps[i + 1] # animation.seek_time

\* the position is above the last timestamp: its insertion point is N, one past the
\* last index
PastLastTimestamp ==
  animation.seek_time > BoundClip.keyframe_timestamps[Last(BoundClip) + 1]

(* C21 as stated: when seek_time matches no timestamp and its insertion point  *)
(* lies beyond the last index, the resolver yields no frame and the displayed  *)
(* frame is left unchanged.                                                    *)
C21_ExhaustedNoFrame ==
  [][\A dt \in PlayDeltas :
       (Resolves(dt) /\ NoMatch /\ PastLastTimestamp) => NoFrame]_vars

(* C21 amended: when seek_time matches no timestamp and lies above the last    *)
(* timestamp, the resolver yields the last frame N-1 (the insertion point of   *)
(* N timestamps is never above N, so the arm that returns no frame for a       *)
(* larger one is never taken).                                                 *)
C21_PastLastTimestamp ==
  [][\A dt \in PlayDeltas :
       (Resolves(dt) /\ NoMatch /\ PastLastTimestamp) =>
         /\ FrameIs(Last(BoundClip))
         /\ \A r \in binary_search(BoundClip.keyframe_timestamps, animation.seek_time) :
              r.i <= Len(BoundClip.keyframe_timestamps)]_vars

\* a position above the last timestamp was resolved to the last frame after
\* frame 0 had been displayed
C21_Witness ==
  /\ paused /\ ~changed
  /\ BoundClip.keyframe_timestamps = <<0, 2, 4>>
  /\ animation.seek_time = 5
  /\ animation.frame = Some(2) /\ animation.last_frame = Some(0)
  /\ sprite_index = 2

\* the frames the resolver can yield for a clip at a position
resolve(clip, seek_time) ==
  {resolve_index(r, Len(clip.keyframe_timestamps)) :
     r \in binary_search(clip.keyframe_timestamps, seek_time)}

(* C22: for one clip and two positions s1 <= s2 in [0, duration] that both     *)
(* resolve to a frame, the frame index for s1 is at most the frame index for   *)
(* s2.  Stated at each resolution of a position s2: the frame it stores is not *)
(* below the frame of any earlier position s1 of the same clip.                *)
C22_ResolverMonotone ==
  [][\A dt \in PlayDeltas :
       (/\ Resolves(dt)
        /\ animation.seek_time \in 0..BoundClip.duration
        /\ resolve(BoundClip, animation.seek_time) # {None}) =>
         /\ animation'.frame \in resolve(BoundClip, animation.seek_time)
         /\ \A s1 \in 0..animation.seek_time :
              \A f1 \in resolve(BoundClip, s1) :
                f1 # None => f1[1] <= animation'.frame[1]]_vars

\* a position in the last interval of a clip of three keyframes was resolved to
\* frame 2 after frame 1 had been displayed
C22_Witness ==
  /\ paused /\ ~changed
  /\ BoundClip.keyframe_timestamps = <<0, 2, 4>>
  /\ BoundClip.duration = 6
  /\ animation.seek_time = 6
  /\ animation.frame = Some(2) /\ animation.last_frame = Some(1)

(* ----------------------------------------------------- AnimationClip2D::new *)
\* Result<AnimationClip2D, AnimationClip2DError>
Ok(clip) == [ok |-> TRUE, clip |-> clip]
Err(error) == [ok |-> FALSE, error |-> error]

\* the timestamps derived when none are given: i / len * duration for i in 0..len
\* (exact for the lengths and durations drawn below)
default_timestamps(len, duration) == [i \in 1..len |-> ((i - 1) * duration) \div len]

\* keyframe_timestamps.unwrap_or(..)
timestamps_or_default(keyframe_timestamps, keyframes, duration) ==
  IF keyframe_timestamps = None
  THEN default_timestamps(Len(keyframes), duration)
  ELSE keyframe_timestamps[1]

\* Iterator::max of a non-empty set of numbers
Maximum(S) == CHOOSE x \in S : \A y \in S : y <= x

\* mutant: the duration is not compared with the timestamps
new_any_duration(keyframe_timestamps, keyframes, duration, events) ==
  LET timestamps == timestamps_or_default(keyframe_timestamps, keyframes, duration)
      clip_events == IF events = None THEN NoEvents ELSE events[1]
      max_event_frame == IF DOMAIN clip_events = {} THEN 0 ELSE Maximum(DOMAIN clip_events)
  IN IF Len(timestamps) # Len(keyframes) THEN Err("SizeMismatch")
     ELSE IF Len(timestamps) = 0 THEN Err("Empty")
     ELSE IF max_event_frame > Len(keyframes) THEN Err("InvalidFrame")
     ELSE Ok([keyframe_timestamps |-> timestamps, keyframes |-> keyframes,
              duration |-> duration, events |-> clip_events])

new(keyframe_timestamps, keyframes, duration, events) ==
  LET keyframes_len == Len(keyframes)
      timestamps == timestamps_or_default(keyframe_timestamps, keyframes, duration)
      keyframe_timestamps_len == Len(timestamps)
      keyframe_timestamps_max == Maximum({timestamps[i] : i \in DOMAIN timestamps})
      clip_events == IF events = None THEN NoEvents ELSE events[1]
      max_event_frame == IF DOMAIN clip_events = {} THEN 0 ELSE Maximum(DOMAIN clip_events)
  IN IF keyframe_timestamps_len # keyframes_len THEN Err("SizeMismatch")
     ELSE IF keyframe_timestamps_len = 0 THEN Err("Empty")
     ELSE IF keyframe_timestamps_max > duration THEN Err("InsufficientDuration")
     ELSE IF max_event_frame > keyframes_len THEN Err("InvalidFrame")
     ELSE Ok([keyframe_timestamps |-> timestamps, keyframes |-> keyframes,
              duration |-> duration, events |-> clip_events])

\* the arguments drawn: up to MaxNewLen keyframes and timestamps, events bound to
\* frames up to MaxNewLen + 1
MaxNewLen == 2

NewTimes == {-12, 0, 6, 12}
NewDurations == {-12, 0, 12}
NewTimestamps ==
  {None} \cup {Some(t) : t \in UNION {[1..n -> NewTimes] : n \in 0..MaxNewLen}}
NewKeyframes == {[i \in 1..n |-> i - 1] : n \in 0..MaxNewLen}
NewEvents ==
  {None} \cup {Some([f \in fs |-> <<Reflected("T", f)>>]) : fs \in SUBSET (0..(MaxNewLen + 1))}

\* one call of AnimationClip2D::new; its arguments and its result are recorded.
\* new reads and writes no state, so one call per behaviour is followed.
NewClip(keyframe_timestamps, keyframes, duration, events) ==
  /\ new_result = None
  /\ second = None
  /\ new_result' = [keyframe_timestamps |-> keyframe_timestamps,
                    keyframes |-> keyframes,
                    duration |-> duration,
                    events |-> events,
                    result |-> new(keyframe_timestamps, keyframes, duration, events)]
  /\ UNCHANGED <<animation, paused, changed, sprite_index, assets, asset_events,
                 event_cache, event_writer, second, update_run, shown, last_op, legacy>>

InitNew ==
  /\ animation = PlayingAnimation2D_default
  /\ paused = FALSE
  /\ changed = TRUE
  /\ sprite_index = 0
  /\ assets = <<>>
  /\ asset_events = <<>>
  /\ event_cache = <<>>
  /\ event_writer = <<>>
  /\ new_result = None
  /\ legacy = None
  /\ second = None
  /\ update_run = NewRun
  /\ shown = <<>>
  /\ last_op = "off"

NextNew ==
  \E t \in NewTimestamps, k \in NewKeyframes, d \in NewDurations, e \in NewEvents :
    NewClip(t, k, d, e)

SpecNew == InitNew /\ [][NextNew]_vars

\* the timestamps the last call worked with
GivenTimestamps ==
  timestamps_or_default(new_result.keyframe_timestamps, new_result.keyframes,
                        new_result.duration)

\* the defects of the arguments of the last call
SizesDiffer == Len(GivenTimestamps) # Len(new_result.keyframes)
NoKeyframes == Len(new_result.keyframes) = 0
TimestampAboveDuration ==
  \E i \in DOMAIN GivenTimestamps : GivenTimestamps[i] > new_result.duration

Failed(error) == ~new_result.result.ok /\ new_result.result.error = error

(* C23: AnimationClip2D::new returns a typed error and no clip for each        *)
(* malformed input: SizeMismatch when the numbers of timestamps and keyframes  *)
(* differ, else Empty when there are no keyframes, else InsufficientDuration   *)
(* when some timestamp exceeds the duration; every clip it returns has equally *)
(* many timestamps and keyframes, at least one of each, and no timestamp above *)
(* its duration.                                                               *)
C23_TypedErrors ==
  new_result # None =>
    /\ SizesDiffer => Failed("SizeMismatch")
    /\ (~SizesDiffer /\ NoKeyframes) => Failed("Empty")
    /\ (~SizesDiffer /\ ~NoKeyframes /\ TimestampAboveDuration) =>
         Failed("InsufficientDuration")
    /\ new_result.result.ok =>
         LET clip == new_result.result.clip IN
         /\ Len(clip.keyframe_timestamps) = Len(clip.keyframes)
         /\ Len(clip.keyframes) >= 1
         /\ \A i \in DOMAIN clip.keyframe_timestamps :
              clip.keyframe_timestamps[i] <= clip.duration

\* two keyframes with a timestamp above the duration were refused
C23_Witness ==
  /\ new_result # None
  /\ new_result.keyframe_timestamps = Some(<<0, 12>>)
  /\ Len(new_result.keyframes) = 2
  /\ new_result.duration = 0
  /\ Failed("InsufficientDuration")

(* C24: AnimationClip2D::new returns InvalidFrame for every events map that    *)
(* has a key outside the frame positions 0..N-1 of a clip of N keyframes (the  *)
(* key N included), so every event key of a clip it returns is a frame         *)
(* position of that clip.                                                      *)
C24_EventKeysInRange ==
  new_result # None =>
    /\ (/\ ~SizesDiffer /\ ~NoKeyframes /\ ~TimestampAboveDuration
        /\ new_result.events # None
        /\ \E f \in DOMAIN new_result.events[1] : f >= Len(new_result.keyframes)) =>
         Failed("InvalidFrame")
    /\ new_result.result.ok =>
         \A f \in DOMAIN new_result.result.clip.events :
           f \in 0..(Len(new_result.result.clip.keyframes) - 1)

(* C25: every clip that AnimationClip2D::new returns has a duration greater    *)
(* than 0.                                                                     *)
C25_PositiveDuration ==
  (new_result # None /\ new_result.result.ok) => new_result.result.clip.duration > 0

(* C26: every clip that AnimationClip2D::new returns has its keyframe          *)
(* timestamps in non-decreasing order and all of them in [0, duration].        *)
C26_TimestampsOrdered ==
  (new_result # None /\ new_result.result.ok) =>
    LET clip == new_result.result.clip IN
    /\ \A i \in 1..(Len(clip.keyframe_timestamps) - 1) :
         clip.keyframe_timestamps[i] <= clip.keyframe_timestamps[i + 1]
    /\ \A i \in DOMAIN clip.keyframe_timestamps :
         /\ 0 <= clip.keyframe_timestamps[i]
         /\ clip.keyframe_timestamps[i] <= clip.duration

(* C27: on a tick on which the instance is paused and was not written since    *)
(* the previous tick, the cursor and the displayed frame are unchanged; on a   *)
(* tick on which it is paused but seek_to was called, the frame is resolved    *)
(* again at the position sought and no time is advanced.                       *)
C27_PauseSkipsUpdate ==
  [][\A dt \in ApiDeltas :
       Tick(dt) =>
         /\ (paused /\ ~changed) =>
              /\ animation' = animation
              /\ sprite_index' = sprite_index
         /\ (paused /\ last_op = "seek_to" /\ animation.animation_clip \in DOMAIN assets) =>
              /\ animation'.elapsed = animation.elapsed
              /\ animation'.seek_time = animation.seek_time
              /\ animation'.completions = animation.completions
              /\ \E f \in resolve(BoundClip, animation.seek_time) :
                   IF f = None THEN NoFrame ELSE FrameIs(f[1])]_vars

\* a paused player that never played was sought to a position of "full" and the
\* tick displayed the frame there
C27_Witness ==
  /\ paused /\ ~changed
  /\ last_op = "tick"
  /\ animation.animation_clip = "full"
  /\ animation.elapsed = 0
  /\ animation.seek_time = 4
  /\ animation.frame = Some(1)
  /\ sprite_index = 1

(* ------------------------------------------------------------ two players *)
\* Two entities with a player each and clips that are loaded while they play.

\* Assets::add of one of the clips: the clip is stored and its AssetEvent queued
AddClip(id) ==
  /\ id \notin DOMAIN assets
  /\ assets' = [h \in DOMAIN assets \cup {id} |->
                  IF h = id THEN AnimationClips[id] ELSE assets[h]]
  /\ asset_events' = Append(asset_events, [kind |-> "Added", id |-> id])
  /\ UNCHANGED <<animation, paused, changed, sprite_index, event_cache, event_writer,
                 new_result, legacy, second, update_run, shown, last_op>>

\* a call on the player of the second entity
SecondApi(a, p) ==
  /\ second # None
  /\ second' = Some(Player(a, p, TRUE, second[1].sprite_index))
  /\ UNCHANGED <<animation, paused, changed, sprite_index, assets, asset_events,
                 event_cache, event_writer, new_result, legacy, update_run, shown, last_op>>

SecondStart(handle) == SecondApi(start(second[1].animation, handle), second[1].paused)

SecondPause == SecondApi(second[1].animation, TRUE)

SecondResume == SecondApi(second[1].animation, FALSE)

PlayersDeltas == {2}

InitPlayers ==
  /\ animation = PlayingAnimation2D_default
  /\ paused = FALSE
  /\ changed = TRUE
  /\ sprite_index = 0
  /\ assets = <<>>
  /\ asset_events = <<>>
  /\ event_cache = <<>>
  /\ event_writer = <<>>
  /\ new_result = None
  /\ legacy = None
  /\ second = Some(Player(PlayingAnimation2D_default, FALSE, TRUE, 0))
  /\ update_run = NewRun
  /\ shown = <<>>
  /\ last_op = "off"

PlayersTick(dt) ==
  /\ animation_player_spritesheet(dt)
  /\ animation'.elapsed <= MaxElapsed
  /\ second'[1].animation.elapsed <= MaxElapsed
  /\ UNCHANGED <<asset_events, event_cache, event_writer, new_result, legacy, update_run, shown,
                 last_op>>

NextPlayers ==
  \/ \E h \in ClipIds : Start(h)
  \/ Pause
  \/ Resume
  \/ \E h \in ClipIds : SecondStart(h)
  \/ SecondPause
  \/ SecondResume
  \/ \E id \in ClipIds : AddClip(id)
  \/ \E dt \in PlayersDeltas : PlayersTick(dt)

SpecPlayers == InitPlayers /\ [][NextPlayers]_vars

\* the clip of the first, of the second player is not in the clip store
ClipMissing == animation.animation_clip \notin DOMAIN assets
SecondClipMissing == second[1].animation.animation_clip \notin DOMAIN assets

(* C28: when the clip a cursor references is missing or not yet loaded, the    *)
(* tick is skipped for that instance, its time state and displayed frame keep  *)
(* their values, and the other instance is still processed in the same tick.   *)
C28_MissingClipSkipped ==
  [][\A dt \in PlayersDeltas :
       PlayersTick(dt) =>
         /\ ClipMissing =>
              /\ animation' = animation
              /\ sprite_index' = sprite_index
              /\ (~SecondClipMissing /\ ~second[1].paused /\ ~finished(second[1].animation)) =>
                   second'[1].animation.elapsed = second[1].animation.elapsed + dt
         /\ SecondClipMissing =>
              /\ second'[1].animation = second[1].animation
              /\ second'[1].sprite_index = second[1].sprite_index
              /\ (~ClipMissing /\ ~paused /\ ~finished(animation)) =>
                   animation'.elapsed = animation.elapsed + dt]_vars

\* ticks have run over a first player whose clip "full" is not loaded, and have
\* played "walk" on the second player
C28_Witness ==
  /\ animation.animation_clip = "full"
  /\ DOMAIN assets = {"walk"}
  /\ ~changed
  /\ animation.elapsed = 0 /\ animation.frame = None
  /\ ~second[1].changed
  /\ second[1].animation.animation_clip = "walk"
  /\ second[1].animation.elapsed = 2
  /\ second[1].animation.frame = Some(1)
  /\ second[1].sprite_index = 2

(* ------------------------------------------------- clip store and event cache *)
\* The clip store is changed while a player plays; every change queues its
\* AssetEvent, and the queue is read by update_animation_event_cache in the tick.

\* at most this many AssetEvents wait to be read
MaxAssetEvents == 3
\* ticks that would push elapsed beyond this are not explored
MaxAssetsElapsed == 8

\* the versions of the clip: the scenario clip with events bound to different frames
ClipVersions == {c \in EventClips : c.duration = 8 /\ DOMAIN c.events \in {{2}, {0, 3}}}

AssetEvent(kind, id) == [kind |-> kind, id |-> id]

\* Assets::insert: a new clip is Added, a replaced one Modified
InsertClip(id, clip) ==
  /\ Len(asset_events) < MaxAssetEvents
  /\ id \in DOMAIN assets => assets[id] # clip
  /\ assets' = [h \in DOMAIN assets \cup {id} |-> IF h = id THEN clip ELSE assets[h]]
  /\ asset_events' = Append(asset_events,
                            AssetEvent(IF id \in DOMAIN assets THEN "Modified" ELSE "Added", id))
  /\ UNCHANGED <<animation, paused, changed, sprite_index, event_cache, event_writer,
                 new_result, legacy, second, update_run, shown, last_op>>

\* Assets::remove
RemoveClip(id) ==
  /\ Len(asset_events) < MaxAssetEvents
  /\ id \in DOMAIN assets
  /\ assets' = [h \in DOMAIN assets \ {id} |-> assets[h]]
  /\ asset_events' = Append(asset_events, AssetEvent("Removed", id))
  /\ UNCHANGED <<animation, paused, changed, sprite_index, event_cache, event_writer,
                 new_result, legacy, second, update_run, shown, last_op>>

\* the last strong handle of a clip is dropped: the clip is reported Unused and
\* removed
DropClip(id) ==
  /\ Len(asset_events) + 1 < MaxAssetEvents
  /\ id \in DOMAIN assets
  /\ assets' = [h \in DOMAIN assets \ {id} |-> assets[h]]
  /\ asset_events' = asset_events \o <<AssetEvent("Unused", id), AssetEvent("Removed", id)>>
  /\ UNCHANGED <<animation, paused, changed, sprite_index, event_cache, event_writer,
                 new_result, legacy, second, update_run, shown, last_op>>

AssetsDeltas == {1, 2}

\* a fresh player that was told to start "clip" and to repeat it; no clip is loaded
InitAssets ==
  /\ animation = [start(PlayingAnimation2D_default, "clip") EXCEPT !.repeat = Forever]
  /\ paused = FALSE
  /\ changed = TRUE
  /\ sprite_index = 0
  /\ assets = <<>>
  /\ asset_events = <<>>
  /\ event_cache = <<>>
  /\ event_writer = <<>>
  /\ new_result = None
  /\ legacy = None
  /\ second = None
  /\ update_run = NewRun
  /\ shown = <<>>
  /\ last_op = "off"

AssetsTick(dt) ==
  /\ animation_event_systems(dt)
  /\ animation'.elapsed <= MaxAssetsElapsed
  /\ UNCHANGED <<new_result, legacy, update_run, shown, last_op>>

NextAssets ==
  \/ \E c \in ClipVersions : InsertClip("clip", c)
  \/ RemoveClip("clip")
  \/ DropClip("clip")
  \/ \E dt \in AssetsDeltas : AssetsTick(dt)

SpecAssets == InitAssets /\ [][NextAssets]_vars

\* the kinds of the notifications for clip id in a queue, in order
RECURSIVE KindsFor(_, _)
KindsFor(queue, id) ==
  IF queue = <<>> THEN <<>>
  ELSE IF Head(queue).id = id
       THEN <<Head(queue).kind>> \o KindsFor(Tail(queue), id)
       ELSE KindsFor(Tail(queue), id)

\* once the queue is read, the entry of clip id is gone: the last notification
\* for it is Removed or Unused, or there is none and the cache had no entry
EntryGoneAfter(queue, cache, id) ==
  LET kinds == KindsFor(queue, id) IN
  IF kinds = <<>> THEN id \notin DOMAIN cache
  ELSE kinds[Len(kinds)] \in {"Removed", "Unused"}

(* C29: after the cache has processed a Removed or Unused notification for a   *)
(* clip, and until an Added or Modified notification rebuilds the entry, a     *)
(* cursor that still references the clip gets no events on a dispatch, also    *)
(* when its frame differs from its last frame, and the dispatch completes.     *)
C29_RemovedClipNoEvents ==
  [][\A dt \in AssetsDeltas :
       (AssetsTick(dt) /\ EntryGoneAfter(asset_events, event_cache, animation.animation_clip)) =>
         /\ animation.animation_clip \notin DOMAIN event_cache'
         /\ event_writer' = <<>>]_vars

\* the clip was removed after the tick that entered frame 2: the dispatch after
\* the removal still sees the frames differ and sends nothing
C29_Witness ==
  /\ assets = <<>>
  /\ asset_events = <<>>
  /\ event_cache = <<>>
  /\ animation.frame = Some(2) /\ animation.last_frame = Some(1)
  /\ ~changed
  /\ event_writer = <<>>

(* C30: whenever the cache has processed all clip notifications, it holds an   *)
(* entry for a clip exactly when the clip is in the clip store, and the entry  *)
(* is the events map of the clip's current version.                            *)
C30_CacheInSync ==
  asset_events = <<>> =>
    /\ DOMAIN event_cache = DOMAIN assets
    /\ \A id \in DOMAIN assets : event_cache[id] = inner_map(assets[id])

\* all notifications are read and the cache holds the events of the version in
\* the clip store, which the player has played up to frame 2
C30_Witness ==
  /\ asset_events = <<>>
  /\ "clip" \in DOMAIN assets
  /\ DOMAIN assets["clip"].events = {0, 3}
  /\ DOMAIN event_cache["clip"] = {0, 3}
  /\ animation.frame = Some(2)
  /\ sprite_index = 2

(* -------------------------------------------------- instances in parallel *)
\* query.par_iter_mut().for_each_mut(..): the closure runs once per entity, on
\* any thread and in any order.  It holds the entity's own components mutably
\* and the time and the clip store by shared reference.  A run of the closure is
\* taken in two steps, up to the advance of the cursor and from the frame
\* search on, and the steps of different entities interleave.
Instances == {"first", "second"}

\* the components the query yields, by entity, before and after a step
World ==
  [first |-> Player(animation, paused, changed, sprite_index), second |-> second[1]]

WorldAfter ==
  [first |-> Player(animation', paused', changed', sprite_index'), second |-> second'[1]]

\* the closures of one run of the system: the components and where each closure is
Tasks(world) == [world |-> world, at |-> [e \in Instances |-> "gate"]]

\* mutant: every closure writes the frame it resolved to the sprite of the first
\* entity
par_iter_mut_step_shared_sprite(task, e, dt) ==
  LET p == task.world[e]
      a == p.animation
      done == [task EXCEPT !.at[e] = "done"]
  IN
  IF task.at[e] = "gate"
  THEN IF (p.paused /\ ~p.changed) \/ a.animation_clip \notin DOMAIN assets
       THEN {done}
       ELSE {[task EXCEPT !.world[e].animation = advance(a, p.paused, dt, assets[a.animation_clip]),
                          !.at[e] = "search"]}
  ELSE IF task.at[e] = "search"
  THEN LET clip == assets[a.animation_clip]
           len == Len(clip.keyframe_timestamps)
       IN {LET resolved == resolve_index(r, len) IN
           IF resolved = None
           THEN [done EXCEPT !.world[e].animation = keep_frame(a)]
           ELSE [done EXCEPT !.world[e].animation = store_frame(a, resolved[1]),
                             !.world["first"].sprite_index = clip.keyframes[resolved[1] + 1]] :
             r \in binary_search(clip.keyframe_timestamps, a.seek_time)}
  ELSE {task}

\* one step of the closure of entity e
par_iter_mut_step(task, e, dt) ==
  LET p == task.world[e]
      a == p.animation
      done == [task EXCEPT !.at[e] = "done"]
  IN
  IF task.at[e] = "gate"
  THEN IF (p.paused /\ ~p.changed) \/ a.animation_clip \notin DOMAIN assets
       THEN {done}
       ELSE {[task EXCEPT !.world[e].animation = advance(a, p.paused, dt, assets[a.animation_clip]),
                          !.at[e] = "search"]}
  ELSE IF task.at[e] = "search"
  THEN LET clip == assets[a.animation_clip]
           len == Len(clip.keyframe_timestamps)
       IN {LET resolved == resolve_index(r, len) IN
           IF resolved = None
           THEN [done EXCEPT !.world[e].animation = keep_frame(a)]
           ELSE [done EXCEPT !.world[e].animation = store_frame(a, resolved[1]),
                             !.world[e].sprite_index = clip.keyframes[resolved[1] + 1]] :
             r \in binary_search(clip.keyframe_timestamps, a.seek_time)}
  ELSE {task}

\* the steps taken in the order of a schedule, from a set of tasks
RECURSIVE par_iter_mut(_, _, _)
par_iter_mut(tasks, schedule, dt) ==
  IF schedule = <<>> THEN tasks
  ELSE par_iter_mut(UNION {par_iter_mut_step(task, Head(schedule), dt) : task \in tasks},
                    Tail(schedule), dt)

\* every order of the two steps of the two closures: one after the other in
\* either order, and the four ways to overlap them
Schedules ==
  {s \in [1..4 -> Instances] : Cardinality({i \in 1..4 : s[i] = "first"}) = 2}

\* the components once the system has run: its own writes are not seen as
\* changes by its next run
after_system(world) == [e \in Instances |-> [world[e] EXCEPT !.changed = FALSE]]

\* the worlds a run of the system can leave under a schedule
Outcomes(schedule, dt) ==
  {after_system(task.world) : task \in par_iter_mut({Tasks(World)}, schedule, dt)}

(* C31: the closure of an instance reads and writes only that instance's      *)
(* cursor and sprite; with the clips read-only, every order and every         *)
(* interleaving of the instances leaves each instance in the same state, the  *)
(* one the tick produces.                                                     *)
C31_InstanceIndependence ==
  [][\A dt \in PlayersDeltas :
       PlayersTick(dt) =>
         \A schedule \in Schedules : Outcomes(schedule, dt) = {WorldAfter}]_vars

\* both players have advanced on the same ticks, on different clips, to different
\* frames
C31_Witness ==
  /\ DOMAIN assets = ClipIds
  /\ ~changed /\ ~second[1].changed
  /\ animation.animation_clip = "full" /\ animation.elapsed = 2
  /\ animation.completions = 1
  /\ second[1].animation.animation_clip = "walk"
  /\ second[1].animation.elapsed = 4
  /\ second[1].animation.frame = Some(1)
  /\ second[1].sprite_index = 2
  /\ sprite_index # second[1].sprite_index

(* ------------------------------------------------- the PostUpdate schedule *)
\* The systems the plugin and add_animation_event::<T> add to PostUpdate, and
\* the order in which the schedule may run them.
Systems ==
  {"animation_player_spritesheet", "update_animation_event_cache", "send_animation_event"}

\* the systems added with .in_set(AnimationEventSystemSet)
AnimationEventSystemSet == {"update_animation_event_cache", "send_animation_event"}

\* mutant: the animation system is not ordered before the event system set
PostUpdate_animation_unordered ==
  {<<"update_animation_event_cache", "send_animation_event">>}

\* the ordering constraints: animation_player_spritesheet
\* .before(AnimationEventSystemSet), and send_animation_event
\* .after(update_animation_event_cache)
PostUpdate ==
  {<<"animation_player_spritesheet", s>> : s \in AnimationEventSystemSet}
    \cup {<<"update_animation_event_cache", "send_animation_event">>}

\* the orders of the three systems that the constraints allow
ScheduleOrders ==
  {order \in [1..3 -> Systems] :
     /\ \A i, j \in 1..3 : order[i] = order[j] => i = j
     /\ \A c \in PostUpdate :
          \A i, j \in 1..3 : (order[i] = c[1] /\ order[j] = c[2]) => i < j}

\* what the three systems read and write
Resources ==
  [animation |-> animation, sprite_index |-> sprite_index, changed |-> changed,
   asset_events |-> asset_events, event_cache |-> event_cache,
   event_writer |-> event_writer]

ResourcesAfter ==
  [animation |-> animation', sprite_index |-> sprite_index', changed |-> changed',
   asset_events |-> asset_events', event_cache |-> event_cache',
   event_writer |-> event_writer']

\* one system run on its own
run_system(res, system, dt) ==
  IF system = "animation_player_spritesheet"
  THEN {[res EXCEPT !.animation = run.animation,
                    !.sprite_index = run.sprite_index,
                    !.changed = FALSE] :
          run \in run_animation_player_spritesheet(res.animation, paused, res.changed,
                                                    res.sprite_index, dt)}
  ELSE IF system = "update_animation_event_cache"
  THEN {[res EXCEPT !.event_cache = update_animation_event_cache(res.event_cache,
                                                                 res.asset_events),
                    !.asset_events = <<>>]}
  ELSE {[res EXCEPT !.event_writer = collect_events(res.animation, res.event_cache)]}

\* the systems run one after the other in an order
RECURSIVE run_schedule(_, _, _)
run_schedule(results, order, dt) ==
  IF order = <<>> THEN results
  ELSE run_schedule(UNION {run_system(res, Head(order), dt) : res \in results},
                    Tail(order), dt)

(* C32: every order of the systems the schedule allows runs the cursor update  *)
(* and frame resolution first, then the refresh of the event cache, then the   *)
(* dispatch; so on every tick the events are collected for the frame resolved  *)
(* on that tick from the cache refreshed on that tick.                         *)
C32_TickOrdering ==
  [][\A dt \in EventDeltas :
       EventTick(dt) =>
         /\ \A order \in ScheduleOrders :
              run_schedule({Resources}, order, dt) = {ResourcesAfter}
         /\ event_cache' = update_animation_event_cache(event_cache, asset_events)
         /\ event_writer' = collect_events(animation', event_cache')]_vars

\* the first tick read the notification of the clip, resolved frame 0 and sent
\* the event bound to frame 0
C32_Witness ==
  /\ animation.elapsed = 1 /\ animation.seek_time = 1
  /\ animation.frame = Some(0) /\ animation.last_frame = None
  /\ asset_events = <<>>
  /\ "clip" \in DOMAIN event_cache
  /\ event_writer = <<[type |-> "T", id |-> 0, target |-> Entity]>>
  /\ sprite_index = 0
  /\ ~paused

(* ------------------------------------------- update with a delta of 0 or less *)
\* update is applied to cursors on "walk" with the deltas 0, -2 and -4; the
\* cursors start at the positions start and seek_to can leave.
RewindDeltas == {0, -2, -4}
RewindSpeeds == {1, 2}
RewindSeeks == {2 * k : k \in (-1)..(MaxClipTime + 1)}

InitRewind ==
  /\ \E seek_time \in RewindSeeks, speed \in RewindSpeeds, repeat \in RepeatModes :
       animation = [start(PlayingAnimation2D_default, "walk") EXCEPT
                      !.seek_time = seek_time, !.speed = speed, !.repeat = repeat]
  /\ paused = FALSE
  /\ changed = TRUE
  /\ sprite_index = 0
  /\ assets = AnimationClips
  /\ asset_events = <<>>
  /\ event_cache = <<>>
  /\ event_writer = <<>>
  /\ new_result = None
  /\ legacy = None
  /\ second = None
  /\ update_run = NewRun
  /\ shown = <<>>
  /\ last_op = "off"

\* one call of update(delta, clip.duration) on the cursor
Rewind(dt) ==
  /\ animation' = update(animation, dt, BoundClip.duration)
  /\ animation'.elapsed >= -2 * MaxElapsed
  /\ animation'.completions <= MaxCompletions + 1
  /\ UNCHANGED <<paused, changed, sprite_index, assets, asset_events, event_cache,
                 event_writer, new_result, legacy, second, update_run, shown, last_op>>

NextRewind == \E dt \in RewindDeltas : Rewind(dt)

SpecRewind == InitRewind /\ [][NextRewind]_vars

(* C33: an update with a delta of 0 or less on a cursor that is not finished   *)
(* and has a positive speed does not increase completions, leaves              *)
(* completions_this_update at 0 and does not finish the cursor; with delta 0   *)
(* and seek_time in [0, clip_duration) it leaves seek_time and elapsed as they *)
(* were.                                                                       *)
C33_NonPositiveDelta ==
  [][\A dt \in RewindDeltas :
       (Rewind(dt) /\ ~finished(animation) /\ animation.speed > 0) =>
         /\ animation'.completions <= animation.completions
         /\ animation'.completions_this_update = 0
         /\ ~finished(animation')
         /\ (dt = 0 /\ 0 <= animation.seek_time
               /\ animation.seek_time < BoundClip.duration) =>
              /\ animation'.seek_time = animation.seek_time
              /\ animation'.elapsed = animation.elapsed]_vars

(* ------------------------------------------------ SpriteSheetAnimationPlayer *)
\* The player of src/animation.rs: a named animation of a SpriteSheetAnimationSet
\* is played by a repeating Timer of 1 / fps seconds; each expiry moves index to
\* the next entry of the animation's indices.  Times are counted in quarters of
\* a second here.

\* SpriteSheetAnimationSet.animations of the loaded set: SpriteSheetAnimation by name
SpriteSheetAnimations ==
  [ blink |-> [repeating |-> TRUE, fps |-> 1, indices |-> <<7>>],
    run   |-> [repeating |-> TRUE, fps |-> 2, indices |-> <<0, 1, 2>>],
    wave  |-> [repeating |-> FALSE, fps |-> 1, indices |-> <<9>>],
    kick  |-> [repeating |-> FALSE, fps |-> 2, indices |-> <<4, 5, 6>>] ]

SpriteSheetAnimationNames == DOMAIN SpriteSheetAnimations

\* SpriteSheetAnimationPlayerState
Stopped == [kind |-> "Stopped", name |-> ""]
Playing(name) == [kind |-> "Playing", name |-> name]
Paused(name) == [kind |-> "Paused", name |-> name]

\* bevy Timer: Timer::default() and Timer::from_seconds(duration, mode)
Timer_default ==
  [duration |-> 0, elapsed |-> 0, mode |-> "Once", finished |-> FALSE,
   times_finished_this_tick |-> 0]

Timer_from_seconds(duration, mode) ==
  [duration |-> duration, elapsed |-> 0, mode |-> mode, finished |-> FALSE,
   times_finished_this_tick |-> 0]

\* Timer::tick(delta) and Timer::just_finished()
Timer_tick(timer, delta) ==
  IF timer.mode # "Repeating" /\ timer.finished
  THEN [timer EXCEPT !.times_finished_this_tick = 0]
  ELSE
    LET elapsed == timer.elapsed + delta IN
    IF elapsed >= timer.duration
    THEN IF timer.mode = "Repeating"
         THEN [timer EXCEPT !.finished = TRUE,
                            !.times_finished_this_tick = elapsed \div timer.duration,
                            !.elapsed = elapsed % timer.duration]
         ELSE [timer EXCEPT !.finished = TRUE,
                            !.times_finished_this_tick = 1,
                            !.elapsed = timer.duration]
    ELSE [timer EXCEPT !.finished = FALSE,
                       !.times_finished_this_tick = 0,
                       !.elapsed = elapsed]

Timer_just_finished(timer) == timer.times_finished_this_tick > 0

\* 1.0 / fps seconds, in quarters of a second
SecondsPerFrame(fps) == 4 \div fps

SpriteSheetAnimationPlayer_default ==
  [state |-> Stopped, index |-> 0, speed |-> 1, timer |-> Timer_default,
   update_internal |-> TRUE]

with_animation(player, name) == [player EXCEPT !.state = Playing(name)]

SpriteSheetAnimationPlayer_play(player, name) ==
  [player EXCEPT !.state = Playing(name),
                 !.index = 0,
                 !.timer = Timer_default,
                 !.update_internal = TRUE]

SpriteSheetAnimationPlayer_stop(player) == [player EXCEPT !.state = Stopped]

\* animation(): the name of the animation playing or paused
SpriteSheetAnimationPlayer_animation(player) ==
  IF player.state.kind = "Stopped" THEN None ELSE Some(player.state.name)

SpriteSheetAnimationPlayer_pause(player) ==
  IF player.state.kind = "Playing"
  THEN [player EXCEPT !.state = Paused(player.state.name)]
  ELSE player

SpriteSheetAnimationPlayer_resume(player) ==
  IF player.state.kind = "Paused"
  THEN [player EXCEPT !.state = Playing(player.state.name)]
  ELSE player

\* the entity: its player, whether the player was written since
\* animation_update_internal last ran, its sprite's index, and whether a system
\* has panicked
LegacyEntity(player, c, index, panicked) ==
  [player |-> player, changed |-> c, sprite_index |-> index, panicked |-> panicked]

\* animation_update_internal: the timer of a newly played animation is set up
animation_update_internal(entity) ==
  LET player == entity.player IN
  IF entity.changed /\ SpriteSheetAnimationPlayer_animation(player) # None
       /\ player.update_internal
  THEN LET sheet == SpriteSheetAnimations[player.state.name] IN
       [entity EXCEPT !.player.timer =
                         Timer_from_seconds(SecondsPerFrame(sheet.fps), "Repeating"),
                      !.player.update_internal = FALSE,
                      !.changed = FALSE]
  ELSE [entity EXCEPT !.changed = FALSE]

\* mutant: a paused player is ticked like a playing one
animate_sprite_ticks_paused(entity, dt) ==
  LET player == entity.player IN
  IF player.state.kind = "Stopped" THEN entity
  ELSE
    LET sheet == SpriteSheetAnimations[player.state.name]
        timer == Timer_tick(player.timer, dt * player.speed)
        ticked == [entity EXCEPT !.player.timer = timer, !.changed = TRUE]
    IN
    IF ~Timer_just_finished(timer) THEN ticked
    ELSE
      LET len == Len(sheet.indices)
          incremented == player.index + 1
          new_index == IF sheet.repeating THEN incremented % len
                       ELSE IF incremented >= len - 1 THEN incremented ELSE len - 1
      IN
      IF player.index # new_index
      THEN IF new_index < len
           THEN [ticked EXCEPT !.player.index = new_index,
                               !.sprite_index = sheet.indices[new_index + 1]]
           ELSE [ticked EXCEPT !.player.index = new_index, !.panicked = TRUE]
      ELSE [ticked EXCEPT !.player = SpriteSheetAnimationPlayer_stop(ticked.player)]

\* animate_sprite for the entity, with the delta of this frame.  Indexing indices
\* at or beyond its length panics, after player.index was written.
animate_sprite(entity, dt) ==
  LET player == entity.player IN
  IF player.state.kind \in {"Stopped", "Paused"} THEN entity
  ELSE
    LET sheet == SpriteSheetAnimations[player.state.name]
        timer == Timer_tick(player.timer, dt * player.speed)
        ticked == [entity EXCEPT !.player.timer = timer, !.changed = TRUE]
    IN
    IF ~Timer_just_finished(timer) THEN ticked
    ELSE
      LET len == Len(sheet.indices)
          incremented == player.index + 1
          new_index == IF sheet.repeating THEN incremented % len
                       ELSE IF incremented >= len - 1 THEN incremented ELSE len - 1
      IN
      IF player.index # new_index
      THEN IF new_index < len
           THEN [ticked EXCEPT !.player.index = new_index,
                               !.sprite_index = sheet.indices[new_index + 1]]
           ELSE [ticked EXCEPT !.player.index = new_index, !.panicked = TRUE]
      ELSE [ticked EXCEPT !.player = SpriteSheetAnimationPlayer_stop(ticked.player)]

\* a call on the player; every &mut self call marks the component changed
LegacyApi(player) ==
  /\ legacy # None
  /\ ~legacy[1].panicked
  /\ legacy' = Some([legacy[1] EXCEPT !.player = player, !.changed = TRUE])
  /\ UNCHANGED <<animation, paused, changed, sprite_index, assets, asset_events,
                 event_cache, event_writer, new_result, second, update_run, shown,
                 last_op>>

LegacyPlay(name) == LegacyApi(SpriteSheetAnimationPlayer_play(legacy[1].player, name))
LegacyStop == LegacyApi(SpriteSheetAnimationPlayer_stop(legacy[1].player))
LegacyPause == LegacyApi(SpriteSheetAnimationPlayer_pause(legacy[1].player))
LegacyResume == LegacyApi(SpriteSheetAnimationPlayer_resume(legacy[1].player))
LegacySetSpeed(speed) == LegacyApi([legacy[1].player EXCEPT !.speed = speed])

LegacyDeltas == {1, 3}
LegacySpeeds == {1, 2}

\* one frame: animation_update_internal, then animate_sprite
LegacyTick(dt) ==
  /\ legacy # None
  /\ ~legacy[1].panicked
  /\ legacy' = Some(animate_sprite(animation_update_internal(legacy[1]), dt))
  /\ UNCHANGED <<animation, paused, changed, sprite_index, assets, asset_events,
                 event_cache, event_writer, new_result, second, update_run, shown,
                 last_op>>

\* the entity is spawned with a player of the loaded set, stopped or playing
InitLegacy ==
  /\ animation = PlayingAnimation2D_default
  /\ paused = FALSE
  /\ changed = TRUE
  /\ sprite_index = 0
  /\ assets = <<>>
  /\ asset_events = <<>>
  /\ event_cache = <<>>
  /\ event_writer = <<>>
  /\ new_result = None
  /\ \E player \in {SpriteSheetAnimationPlayer_default} \cup
                   {with_animation(SpriteSheetAnimationPlayer_default, name) :
                      name \in SpriteSheetAnimationNames} :
       legacy = Some(LegacyEntity(player, TRUE, 0, FALSE))
  /\ second = None
  /\ update_run = NewRun
  /\ shown = <<>>
  /\ last_op = "off"

NextLegacy ==
  \/ \E name \in SpriteSheetAnimationNames : LegacyPlay(name)
  \/ LegacyStop
  \/ LegacyPause
  \/ LegacyResume
  \/ \E speed \in LegacySpeeds : LegacySetSpeed(speed)
  \/ \E dt \in LegacyDeltas : LegacyTick(dt)

SpecLegacy == InitLegacy /\ [][NextLegacy]_vars

\* the player of the entity and the animation it plays or has paused
LegacyPlayer == legacy[1].player
LegacySheet == SpriteSheetAnimations[LegacyPlayer.state.name]

C35_LegacyRepeatingLoops ==
  [][\A dt \in LegacyDeltas :
       (LegacyTick(dt) /\ LegacyPlayer.state.kind = "Playing" /\ LegacySheet.repeating) =>
         /\ legacy'[1].player.state = LegacyPlayer.state
         /\ (LegacyPlayer.index = Len(LegacySheet.indices) - 1
               /\ Timer_just_finished(legacy'[1].player.timer)) =>
              legacy'[1].player.index = 0]_vars

(* C36: index is always a position of the indices of the animation playing or  *)
(* paused and no frame reads indices out of bounds; on a frame on which the    *)
(* timer of a playing animation that does not repeat expires, index moves on   *)
(* by one, and at the last position the player stops instead.                  *)
C36_LegacyIndexInRange ==
  [][\A dt \in LegacyDeltas :
       (LegacyTick(dt) /\ LegacyPlayer.state.kind = "Playing") =>
         /\ LegacyPlayer.index < Len(LegacySheet.indices)
         /\ legacy'[1].player.index < Len(LegacySheet.indices)
         /\ ~legacy'[1].panicked
         /\ (~LegacySheet.repeating /\ Timer_just_finished(legacy'[1].player.timer)) =>
              IF LegacyPlayer.index < Len(LegacySheet.indices) - 1
              THEN /\ legacy'[1].player.index = LegacyPlayer.index + 1
                   /\ legacy'[1].player.state = LegacyPlayer.state
              ELSE /\ legacy'[1].player.index = LegacyPlayer.index
                   /\ legacy'[1].player.state = Stopped]_vars

(* ------------------------------------------------ dispatch without a frame *)
\* A player on a clip that binds events to frame 0 is played, paused, sought
\* and started again.
InitUnresolved ==
  /\ InitEvents
  /\ 0 \in DOMAIN BoundClip.events
  /\ animation.repeat = Never

UnresolvedDeltas == {1, 2}
UnresolvedSeeks == {-1, 5}

NextUnresolved ==
  \/ \E dt \in UnresolvedDeltas : EventTick(dt)
  \/ Start("clip")
  \/ Pause
  \/ Resume
  \/ \E t \in UnresolvedSeeks : SeekTo(t)

SpecUnresolved == InitUnresolved /\ [][NextUnresolved]_vars

(* C37: a tick that leaves the instance without a current frame sends no event *)
(* for it, whatever frames it had before; a cursor without a frame has no      *)
(* last_frame either, so the events of frame 0 are not sent for it.            *)
C37_NoEventWithoutFrame ==
  [][\A dt \in UnresolvedDeltas :
       (EventTick(dt) /\ animation'.frame = None) =>
         /\ event_writer' = <<>>
         /\ animation'.last_frame = None]_vars

\* the player had shown frame 2, was started again and sought to the end of the
\* clip; the tick finished it without a frame, and nothing was sent although the
\* clip binds an event to frame 0
C37_Witness ==
  /\ 0 \in DOMAIN BoundClip.events
  /\ "clip" \in DOMAIN event_cache
  /\ 0 \in DOMAIN event_cache["clip"]
  /\ ~changed
  /\ animation.frame = None
  /\ animation.elapsed > 0
  /\ sprite_index = 2
  /\ event_writer = <<>>

(* ------------------------------------------------ what a new cursor forgets *)
\* play and play_continue build a new cursor for handle h when the clip differs
\* or the player is paused
Rebinds(h) == animation.animation_clip # h \/ paused

\* the step leaves a cursor with the speed, policy and count of a new cursor and
\* the paused flag as it was
PolicyReset ==
  /\ animation'.speed = 1
  /\ animation'.repeat = Never
  /\ animation'.completions = 0
  /\ paused' = paused

(* C38: start(clip), and play(clip) and play_continue(clip) whenever they      *)
(* build a new cursor, leave speed at 1.0, the repeat policy at Never and      *)
(* completions at 0, whatever they were before, and leave the paused flag as   *)
(* it was.                                                                     *)
C38_StartResetsPolicy ==
  [][\A h \in Handles :
       /\ Start(h) => PolicyReset
       /\ (Play(h) /\ Rebinds(h)) => PolicyReset
       /\ (PlayContinue(h) /\ Rebinds(h)) => PolicyReset]_vars

\* play_continue("full") on a paused player that had played "walk" for one tick:
\* the new cursor carries the time and has the default speed and policy, and the
\* player is still paused
C38_Witness ==
  /\ last_op = "play_continue"
  /\ paused
  /\ sprite_index = 2
  /\ animation.animation_clip = "full"
  /\ animation.elapsed = 2 /\ animation.seek_time = 2
  /\ animation.speed = 1
  /\ animation.repeat = Never
  /\ animation.completions = 0

(* ------------------------------------------------------ a finished cursor *)
\* the step is a call the claim names as ending the finished state: start,
\* replay, seek_to, set_repeat_mode, or a play or play_continue that builds a new
\* cursor
EndsFinishedNamed ==
  \/ last_op' \in {"start", "replay", "seek_to", "set_repeat_mode"}
  \/ /\ last_op' \in {"play", "play_continue"}
     /\ Rebinds(animation'.animation_clip)

\* the cursor is finished before and after the step, at the same times
StaysFinished ==
  /\ finished(animation')
  /\ animation'.elapsed = animation.elapsed
  /\ animation'.seek_time = animation.seek_time
  /\ animation'.completions = animation.completions

(* C39 as stated: no tick decreases completions, and a finished cursor stays   *)
(* finished with elapsed, seek_time and completions fixed over every step but  *)
(* start, a play or play_continue that builds a new cursor, replay, seek_to    *)
(* and set_repeat_mode.                                                        *)
C39_FinishedUntilNamedCall ==
  [][/\ last_op' = "tick" => animation'.completions >= animation.completions
     /\ (finished(animation) /\ ~EndsFinishedNamed) => StaysFinished]_vars

(* C39: no tick decreases completions, and a finished cursor stays finished    *)
(* with elapsed, seek_time and completions fixed over every step but start, a  *)
(* play or play_continue that builds a new cursor, replay, seek_to,            *)
(* set_repeat_mode and repeat.                                                 *)
C39_FinishedUntilCall ==
  [][/\ last_op' = "tick" => animation'.completions >= animation.completions
     /\ (finished(animation) /\ ~EndsFinishedNamed /\ last_op' # "repeat") =>
          StaysFinished]_vars

\* a tick has run over a cursor on "full" that an earlier tick had finished
C39_Witness ==
  /\ last_op = "tick"
  /\ ~paused
  /\ animation.animation_clip = "full"
  /\ animation.repeat = Never
  /\ finished(animation)
  /\ animation.completions = 1
  /\ animation.completions_this_update = 0
  /\ animation.elapsed = 2
  /\ animation.seek_time = 2

(* ---------------------------------------------------------------- liveness *)
\* A player that is started on a loaded clip with some speed other than 0 and
\* some policy, and is then only ticked, with deltas of at least 2 time units.
\* PostUpdate runs on every frame of the app, so the tick is taken again and
\* again: weak fairness of the tick.

\* a cursor that repeats for ever is followed up to this many completions
MaxLiveCompletions == 3

LiveSpeeds == {-1, 1, 2}
LiveDeltas == {2, 4}

\* no tick is followed beyond this much elapsed time: the longest clip played
\* MaxCount + MaxLiveCompletions + 1 times at the lowest speed
LiveHorizon ==
  Maximum({AnimationClips[h].duration : h \in ClipIds})
    * (MaxCount + MaxLiveCompletions + 1)

InitLive ==
  /\ \E h \in ClipIds, speed \in LiveSpeeds, repeat \in RepeatModes :
       animation = [start(PlayingAnimation2D_default, h) EXCEPT
                      !.speed = speed, !.repeat = repeat]
  /\ paused = FALSE
  /\ changed = TRUE
  /\ sprite_index = 0
  /\ assets = AnimationClips
  /\ asset_events = <<>>
  /\ event_cache = <<>>
  /\ event_writer = <<>>
  /\ new_result = None
  /\ legacy = None
  /\ second = None
  /\ update_run = NewRun
  /\ shown = <<>>
  /\ last_op = "off"

LiveTick(dt) ==
  /\ animation.repeat = Forever => animation.completions < MaxLiveCompletions
  /\ animation_player_spritesheet(dt)
  /\ animation'.elapsed <= LiveHorizon
  /\ UNCHANGED <<asset_events, event_cache, event_writer, new_result, legacy, update_run,
                 shown, last_op>>

NextLive == \E dt \in LiveDeltas : LiveTick(dt)

SpecLive == InitLive /\ [][NextLive]_vars /\ WF_vars(NextLive)

(* C40: an unpaused cursor with policy Never or Count(n), a speed other than 0 *)
(* and a loaded clip, ticked again and again with deltas of at least 2 time    *)
(* units, is eventually finished; with policy Forever it is never finished and *)
(* its completions reach every number up to MaxLiveCompletions.                *)
C40_Liveness ==
  /\ [](animation.repeat # Forever => <>finished(animation))
  /\ [](animation.repeat = Forever => ~finished(animation))
  /\ [](animation.repeat = Forever => <>(animation.completions >= MaxLiveCompletions))

\* a cursor with policy Count(2) on "walk" was ticked at speed 1 through two
\* durations of the clip and is finished
C40_Witness ==
  /\ animation.animation_clip = "walk"
  /\ animation.repeat = Count(2)
  /\ animation.speed = 1
  /\ animation.elapsed = 12
  /\ animation.completions = 2
  /\ animation.seek_time = 6
  /\ finished(animation)

====
